---- MODULE Spec2Model ----
(***************************************************************************)
(* Provider selection and scoring engine of Your-PaL-MoE.                  *)
(*                                                                         *)
(* State: the provider registry (CSVProviderLoader.providers, the dict the *)
(* ProviderSelector shares) and the rows of the CSV file it is loaded      *)
(* from, the performance tracker (ProviderSelector.performance_metrics),   *)
(* the keyword lists of the TaskReasoningEngine, the MetricsCollector, the *)
(* clock, the requests in flight, the request being served, the record of  *)
(* the last call and the number of registry and tracker updates made so    *)
(* far (ops, which only bounds the behaviours).                            *)
(*                                                                         *)
(* Real numbers are fixed-point integers.  Units:                          *)
(*   complexity axes, capabilities, weights, health : 1/100                *)
(*   cost_per_1k_tokens, max_cost_per_1k            : 1/100000             *)
(*   tracker statistics and their samples           : 1/1000               *)
(*   budget_weight                                  : 1/10                 *)
(*   axis scores                                    : 1/ONE                *)
(*   total score                                    : 1/(100 * ONE)        *)
(* The input sets are chosen so that every division below is exact.        *)
(***************************************************************************)
EXTENDS Integers, Sequences, FiniteSets, TLC

VARIABLES providers, performance_metrics, request, last, ops,
          csv_rows, engine, collector, clock, handlers

vars == <<providers, performance_metrics, request, last, ops,
          csv_rows, engine, collector, clock, handlers>>

\* 1.0 as an axis score: tier base (1/100) * health (1/100) * rate factor (1/1000)
ONE == 100 * 100 * 1000

Min(a, b) == IF a <= b THEN a ELSE b

Max(a, b) == IF a >= b THEN a ELSE b

(***************************************************************************)
(* Bounds of the model.                                                    *)
(***************************************************************************)
\* rows of the provider CSV file
MaxRows == 2

\* registry and tracker updates in one behaviour
MaxOps == 1

\* requests in flight in one behaviour of the tracker
MaxRequests == 2

\* analyze_complexity calls in one behaviour
MaxCalls == 3

\* record_request calls in one behaviour
MaxRecords == 2

\* half hours that pass in one behaviour
MaxTicks == 2

(***************************************************************************)
(* Python values of a dict entry: absent key, number, string, list.        *)
(***************************************************************************)
Absent == [tag |-> "absent", n |-> 0, s |-> "", l |-> <<>>]

Num(x) == [tag |-> "num", n |-> x, s |-> "", l |-> <<>>]

Str(x) == [tag |-> "str", n |-> 0, s |-> x, l |-> <<>>]

List(x) == [tag |-> "list", n |-> 0, s |-> "", l |-> x]

\* Python truthiness of dict.get(key): None, 0, "" and [] are falsy
Truthy(v) ==
    CASE v.tag = "absent" -> FALSE
      [] v.tag = "num" -> v.n # 0
      [] v.tag = "str" -> v.s # ""
      [] v.tag = "list" -> v.l # <<>>

Range(seq) == {seq[i] : i \in DOMAIN seq}

(***************************************************************************)
(* Provider registry (config/csv_provider_loader.py).                      *)
(***************************************************************************)
TierNames == {"official", "community", "unofficial"}

\* str.lower() on the names and words of the model
Lower(name) ==
    CASE name = "Local" -> "local"
      [] name = "OpenAI" -> "openai"
      [] name = "LOCAL" -> "local"
      [] name = "HIGH" -> "high"
      [] name = "Academic" -> "academic"
      [] name = "History" -> "history"
      [] name = "Explain" -> "explain"
      [] name = "Paris" -> "paris"
      [] name = "London" -> "london"
      [] name = "Berlin" -> "berlin"
      [] name = "Tokyo" -> "tokyo"
      [] OTHER -> name

ProviderConfig(name, tier, api_key, models, timeout, rpm, cost, priority) ==
    [name |-> name, tier |-> tier, api_key |-> api_key, models |-> models,
     timeout |-> timeout, max_requests_per_minute |-> rpm,
     cost_per_1k_tokens |-> cost, priority |-> priority, health_score |-> 100]

\* the rows a provider CSV file may hold, as _parse_provider_row returns them
ProviderRows ==
    { ProviderConfig("openai", "official", "sk-1", <<"gpt-4", "gpt-3.5">>, 30, 60, 200, 1),
      ProviderConfig("groq", "community", "gk-1", <<"llama">>, 60, 60, 5, 2),
      ProviderConfig("mirror", "community", "mk-1", <<"llama">>, 60, 60, 5, 2),
      ProviderConfig("Local", "unofficial", "", <<"llama">>, 120, 2000, 0, 3),
      ProviderConfig("azure", "official", "", <<"gpt-4">>, 30, 1000, 0, 1) }

RECURSIVE SeqsUpTo(_, _)
SeqsUpTo(S, n) ==
    IF n = 0 THEN {<<>>}
    ELSE LET shorter == SeqsUpTo(S, n - 1)
         IN shorter \cup {Append(q, x) : q \in shorter, x \in S}

\* a store under the name as it is written in the file
PutProviderByName(dict, p) ==
    IF \E i \in DOMAIN dict : dict[i].key = p.name
    THEN [i \in DOMAIN dict |->
            IF dict[i].key = p.name THEN [key |-> p.name, cfg |-> p] ELSE dict[i]]
    ELSE Append(dict, [key |-> p.name, cfg |-> p])

\* self.providers[provider.name.lower()] = provider on an insertion-ordered dict
PutProvider(dict, p) ==
    LET k == Lower(p.name)
    IN IF \E i \in DOMAIN dict : dict[i].key = k
       THEN [i \in DOMAIN dict |->
               IF dict[i].key = k THEN [key |-> k, cfg |-> p] ELSE dict[i]]
       ELSE Append(dict, [key |-> k, cfg |-> p])

RECURSIVE load_providers(_, _)
load_providers(rows, dict) ==
    IF rows = <<>> THEN dict
    ELSE load_providers(Tail(rows), PutProvider(dict, Head(rows)))

Keys(dict) == {dict[i].key : i \in DOMAIN dict}

\* CSVProviderLoader.get_provider: index of the entry, 0 when there is none
get_provider(dict, name) ==
    IF \E i \in DOMAIN dict : dict[i].key = Lower(name)
    THEN CHOOSE i \in DOMAIN dict : dict[i].key = Lower(name)
    ELSE 0

update_provider_health(dict, name, health_score) ==
    LET i == get_provider(dict, name)
    IN IF i = 0 THEN dict
       ELSE [dict EXCEPT ![i].cfg.health_score = Max(0, Min(100, health_score))]

(***************************************************************************)
(* Performance tracker (ProviderPerformance).                              *)
(***************************************************************************)
ProviderPerformance ==
    [success_rate |-> 1000, avg_response_time |-> 1000,
     avg_cost_efficiency |-> 1000, request_count |-> 0]

\* ProviderSelector.__init__: one fresh record per registry key
InitialMetrics(dict) == [k \in Keys(dict) |-> ProviderPerformance]

(***************************************************************************)
(* Selection engine (selection/dynamic_selector.py).                       *)
(***************************************************************************)
\* `if constraints:` / `if context:`: None and the empty dict are falsy
DictTruthy(d, keys) == ~d.isNone /\ \E k \in keys : d[k].tag # "absent"

ConstraintKeys ==
    {"max_cost_per_1k", "max_timeout", "allowed_tiers", "required_model", "budget_weight"}

ContextKeys == {"priority", "complexity_hint"}

HealthFloor == 10

\* is_available without the health check
is_available_ignoring_health(provider) ==
    ~(provider.tier # "unofficial" /\ provider.api_key = "")

\* the availability part of the filter loop: TRUE when the provider goes on to
\* the constraints, FALSE when the loop continues with the next provider
is_available(provider) ==
    IF provider.tier # "unofficial" /\ provider.api_key = "" THEN FALSE
    ELSE IF provider.health_score < HealthFloor THEN FALSE
    ELSE TRUE

\* the `if constraints:` part of the filter loop: "skip" (continue), "keep", or
\* "raise" (a comparison with a non-number or ProviderTier(...) throws)
apply_constraints(provider, constraints) ==
    IF ~DictTruthy(constraints, ConstraintKeys) THEN "keep"
    ELSE IF Truthy(constraints.max_cost_per_1k)
            /\ constraints.max_cost_per_1k.tag # "num" THEN "raise"
    ELSE IF Truthy(constraints.max_cost_per_1k)
            /\ provider.cost_per_1k_tokens > constraints.max_cost_per_1k.n THEN "skip"
    ELSE IF Truthy(constraints.max_timeout)
            /\ constraints.max_timeout.tag # "num" THEN "raise"
    ELSE IF Truthy(constraints.max_timeout)
            /\ provider.timeout > constraints.max_timeout.n THEN "skip"
    ELSE IF Truthy(constraints.allowed_tiers)
            /\ (constraints.allowed_tiers.tag # "list"
                \/ ~(Range(constraints.allowed_tiers.l) \subseteq TierNames)) THEN "raise"
    ELSE IF Truthy(constraints.allowed_tiers)
            /\ provider.tier \notin Range(constraints.allowed_tiers.l) THEN "skip"
    ELSE IF Truthy(constraints.required_model)
            /\ (constraints.required_model.tag # "str"
                \/ constraints.required_model.s \notin Range(provider.models)) THEN "skip"
    ELSE "keep"

\* the body of the filter loop for one provider
provider_check(provider, constraints) ==
    IF ~is_available(provider) THEN "skip" ELSE apply_constraints(provider, constraints)

IsKept(entry, constraints) == provider_check(entry.cfg, constraints) = "keep"

\* the loop stops at the first provider whose check throws
filter_available_providers(dict, constraints) ==
    IF \E i \in DOMAIN dict : provider_check(dict[i].cfg, constraints) = "raise"
    THEN [raised |-> TRUE, available |-> <<>>]
    ELSE [raised |-> FALSE,
          available |-> SelectSeq(dict, LAMBDA e : IsKept(e, constraints))]

tier_capabilities(tier) ==
    CASE tier = "official" ->
           [reasoning |-> 90, knowledge |-> 95, computation |-> 85, coordination |-> 80]
      [] tier = "community" ->
           [reasoning |-> 70, knowledge |-> 75, computation |-> 80, coordination |-> 60]
      [] tier = "unofficial" ->
           [reasoning |-> 50, knowledge |-> 60, computation |-> 70, coordination |-> 40]

\* min(1.0, capability / max(0.1, demand))
capability_match(capability, demand) == Min(ONE, (capability * ONE) \div Max(10, demand))

calculate_capability_score(provider, complexity_score) ==
    LET capabilities == tier_capabilities(provider.tier)
        reasoning_match == capability_match(capabilities.reasoning, complexity_score.reasoning)
        knowledge_match == capability_match(capabilities.knowledge, complexity_score.knowledge)
        computation_match ==
            capability_match(capabilities.computation, complexity_score.computation)
        coordination_match ==
            capability_match(capabilities.coordination, complexity_score.coordination)
    IN (reasoning_match * 30 + knowledge_match * 30
        + computation_match * 25 + coordination_match * 15) \div 100

\* a performance score that rewards the failure rate: 1 - success_rate in the
\* place of success_rate
calculate_performance_score_of_failures(pm, provider) ==
    IF provider.name \notin DOMAIN pm THEN ONE \div 2
    ELSE LET metrics == pm[provider.name]
             response_time_score == Max(0, ONE - metrics.avg_response_time * (ONE \div 10000))
             success_rate_score == (1000 - metrics.success_rate) * (ONE \div 1000)
             cost_efficiency_score == metrics.avg_cost_efficiency * (ONE \div 1000)
         IN (response_time_score * 4 + success_rate_score * 4
             + cost_efficiency_score * 2) \div 10

calculate_performance_score(pm, provider) ==
    IF provider.name \notin DOMAIN pm THEN ONE \div 2
    ELSE LET metrics == pm[provider.name]
             \* max(0.0, 1.0 - avg_response_time / 10.0)
             response_time_score == Max(0, ONE - metrics.avg_response_time * (ONE \div 10000))
             success_rate_score == metrics.success_rate * (ONE \div 1000)
             cost_efficiency_score == metrics.avg_cost_efficiency * (ONE \div 1000)
         IN (response_time_score * 4 + success_rate_score * 4
             + cost_efficiency_score * 2) \div 10

\* max_cost = 0.01 in units of 1/100000
MaxReasonableCost == 1000

\* `cost_score *= budget_weight` throws unless the weight is a number
cost_score_raises(constraints) ==
    /\ DictTruthy(constraints, ConstraintKeys)
    /\ Truthy(constraints.budget_weight)
    /\ constraints.budget_weight.tag # "num"

\* a cost score that grows with the cost: cost / max_cost instead of 1 - cost / max_cost
calculate_cost_score_direct(provider, constraints) ==
    LET cost_score ==
            Min(ONE, provider.cost_per_1k_tokens * (ONE \div MaxReasonableCost))
    IN IF DictTruthy(constraints, ConstraintKeys) /\ Truthy(constraints.budget_weight)
          /\ constraints.budget_weight.tag = "num"
       THEN (cost_score * constraints.budget_weight.n) \div 10
       ELSE cost_score

calculate_cost_score(provider, constraints) ==
    LET cost_score ==
            Max(0, ONE - provider.cost_per_1k_tokens * (ONE \div MaxReasonableCost))
    IN IF DictTruthy(constraints, ConstraintKeys) /\ Truthy(constraints.budget_weight)
          /\ constraints.budget_weight.tag = "num"
       THEN (cost_score * constraints.budget_weight.n) \div 10
       ELSE cost_score

tier_reliability(tier) ==
    CASE tier = "official" -> 95
      [] tier = "community" -> 80
      [] tier = "unofficial" -> 60

calculate_reliability_score(provider) ==
    LET base_score == tier_reliability(provider.tier)
        \* min(1.0, max_requests_per_minute / 1000.0), in 1/1000
        rate_limit_factor == Min(1000, provider.max_requests_per_minute)
    IN base_score * provider.health_score * (800 + rate_limit_factor \div 5)

PriorityIs(context, p) ==
    /\ DictTruthy(context, ContextKeys)
    /\ context.priority.tag = "str"
    /\ context.priority.s = p

\* weights whose "performance" branch forgets to lower the cost weight
weights_performance_only(context) ==
    LET default == [capability |-> 35, performance |-> 25, cost |-> 25, reliability |-> 15]
    IN IF PriorityIs(context, "cost")
       THEN [default EXCEPT !.cost = 40, !.capability = 25]
       ELSE IF PriorityIs(context, "performance")
       THEN [default EXCEPT !.performance = 40]
       ELSE IF PriorityIs(context, "quality")
       THEN [default EXCEPT !.capability = 50, !.cost = 15]
       ELSE default

\* weights that ignore the context
weights_ignoring_context(context) ==
    [capability |-> 35, performance |-> 25, cost |-> 25, reliability |-> 15]

weights(context) ==
    LET default == [capability |-> 35, performance |-> 25, cost |-> 25, reliability |-> 15]
    IN IF PriorityIs(context, "cost")
       THEN [default EXCEPT !.cost = 40, !.capability = 25]
       ELSE IF PriorityIs(context, "performance")
       THEN [default EXCEPT !.performance = 40, !.cost = 15]
       ELSE IF PriorityIs(context, "quality")
       THEN [default EXCEPT !.capability = 50, !.cost = 15]
       ELSE default

calculate_provider_score(pm, provider, complexity_score, context, constraints) ==
    LET w == weights(context)
    IN calculate_capability_score(provider, complexity_score) * w.capability
       + calculate_performance_score(pm, provider) * w.performance
       + calculate_cost_score(provider, constraints) * w.cost
       + calculate_reliability_score(provider) * w.reliability

\* list.sort(key=score, reverse=True) is stable: an element goes after every
\* element already placed whose score is not lower
RECURSIVE InsertByScore(_, _)
InsertByScore(sorted, x) ==
    IF sorted = <<>> THEN <<x>>
    ELSE IF Head(sorted).score >= x.score
         THEN <<Head(sorted)>> \o InsertByScore(Tail(sorted), x)
         ELSE <<x>> \o sorted

\* a sort that puts an element before the equal elements already placed
RECURSIVE InsertBeforeEqual(_, _)
InsertBeforeEqual(sorted, x) ==
    IF sorted = <<>> THEN <<x>>
    ELSE IF Head(sorted).score > x.score
         THEN <<Head(sorted)>> \o InsertBeforeEqual(Tail(sorted), x)
         ELSE <<x>> \o sorted

RECURSIVE sort_by_score_unstable(_)
sort_by_score_unstable(provider_scores) ==
    IF provider_scores = <<>> THEN <<>>
    ELSE InsertBeforeEqual(
             sort_by_score_unstable(SubSeq(provider_scores, 1, Len(provider_scores) - 1)),
             provider_scores[Len(provider_scores)])

\* the sort without reverse=True: lowest score first
RECURSIVE InsertAscending(_, _)
InsertAscending(sorted, x) ==
    IF sorted = <<>> THEN <<x>>
    ELSE IF Head(sorted).score <= x.score
         THEN <<Head(sorted)>> \o InsertAscending(Tail(sorted), x)
         ELSE <<x>> \o sorted

RECURSIVE sort_by_score_ascending(_)
sort_by_score_ascending(provider_scores) ==
    IF provider_scores = <<>> THEN <<>>
    ELSE InsertAscending(
             sort_by_score_ascending(SubSeq(provider_scores, 1, Len(provider_scores) - 1)),
             provider_scores[Len(provider_scores)])

RECURSIVE sort_by_score(_)
sort_by_score(provider_scores) ==
    IF provider_scores = <<>> THEN <<>>
    ELSE InsertByScore(sort_by_score(SubSeq(provider_scores, 1, Len(provider_scores) - 1)),
                       provider_scores[Len(provider_scores)])

NoProvider == ProviderConfig("", "unofficial", "", <<>>, 0, 0, 0, 0)

\* a lookup that stores a fresh record for a name it does not find
metrics_after_score_setdefault(pm, name) ==
    [n \in DOMAIN pm \cup {name} |-> IF n \in DOMAIN pm THEN pm[n] ELSE ProviderPerformance]

\* the lookup `provider.name not in self.performance_metrics` / `[provider.name]`
\* of the performance score reads the tracker and stores nothing
metrics_after_score(pm, name) == pm

RECURSIVE metrics_after_scores(_, _)
metrics_after_scores(pm, available) ==
    IF available = <<>> THEN pm
    ELSE metrics_after_scores(metrics_after_score(pm, Head(available).cfg.name),
                              Tail(available))

\* a scoring loop in which a failed request of the second candidate is recorded
\* in between the first score and the others
score_providers_torn(pm, available, complexity_score, context, constraints) ==
    IF available = <<>> THEN <<>>
    ELSE LET rest == Tail(available)
             later == [n \in DOMAIN pm |->
                         IF rest # <<>> /\ n = rest[1].cfg.name
                         THEN [pm[n] EXCEPT !.success_rate = (9 * @) \div 10,
                                            !.request_count = @ + 1]
                         ELSE pm[n]]
         IN <<[provider |-> Head(available).cfg,
               score |-> calculate_provider_score(pm, Head(available).cfg,
                                                  complexity_score, context, constraints)]>>
            \o [k \in 1..Len(rest) |->
                  [provider |-> rest[k].cfg,
                   score |-> calculate_provider_score(later, rest[k].cfg, complexity_score,
                                                      context, constraints)]]

\* the loop `for provider in available_providers: provider_scores.append(...)`
RECURSIVE score_providers(_, _, _, _, _)
score_providers(pm, available, complexity_score, context, constraints) ==
    IF available = <<>> THEN <<>>
    ELSE <<[provider |-> Head(available).cfg,
            score |-> calculate_provider_score(pm, Head(available).cfg, complexity_score,
                                               context, constraints)]>>
         \o score_providers(pm, Tail(available), complexity_score, context, constraints)

select_provider(dict, pm, complexity_score, context, constraints) ==
    LET filtered == filter_available_providers(dict, constraints)
        available_providers == filtered.available
        provider_scores ==
            score_providers(pm, available_providers, complexity_score, context, constraints)
        sorted == sort_by_score(provider_scores)
    IN IF filtered.raised
       THEN [outcome |-> "raise", provider |-> NoProvider, score |-> 0,
             available |-> <<>>, provider_scores |-> <<>>, pm |-> pm]
       ELSE IF available_providers = <<>>
       THEN [outcome |-> "none", provider |-> NoProvider, score |-> 0,
             available |-> <<>>, provider_scores |-> <<>>, pm |-> pm]
       ELSE IF cost_score_raises(constraints)
       THEN [outcome |-> "raise", provider |-> NoProvider, score |-> 0,
             available |-> available_providers, provider_scores |-> <<>>,
             pm |-> metrics_after_score(pm, available_providers[1].cfg.name)]
       ELSE [outcome |-> "provider", provider |-> sorted[1].provider,
             score |-> sorted[1].score,
             available |-> available_providers, provider_scores |-> provider_scores,
             pm |-> metrics_after_scores(pm, available_providers)]

\* a statistic that is replaced by the last sample
ema_last_sample(old, sample) == sample

\* update_provider_metrics: exponential moving average with alpha = 0.1
ema(old, sample) == (9 * old + sample) \div 10

\* an update that ignores the names the tracker does not hold
update_provider_metrics_known_only(pm, provider_name, response_time, success, cost_efficiency) ==
    IF provider_name \notin DOMAIN pm THEN pm
    ELSE [pm EXCEPT ![provider_name] =
            [success_rate |-> (9 * @.success_rate + (IF success THEN 1000 ELSE 0)) \div 10,
             avg_response_time |-> (9 * @.avg_response_time + response_time) \div 10,
             avg_cost_efficiency |-> (9 * @.avg_cost_efficiency + cost_efficiency) \div 10,
             request_count |-> @.request_count + 1]]

\* an update computed from the record as it was created, not as it is
update_provider_metrics_stale(pm, provider_name, response_time, success, cost_efficiency) ==
    [n \in DOMAIN pm \cup {provider_name} |->
        IF n = provider_name
        THEN [success_rate |-> (9000 + (IF success THEN 1000 ELSE 0)) \div 10,
              avg_response_time |-> (9000 + response_time) \div 10,
              avg_cost_efficiency |-> (9000 + cost_efficiency) \div 10,
              request_count |-> 1]
        ELSE pm[n]]

update_provider_metrics(pm, provider_name, response_time, success, cost_efficiency) ==
    LET metrics == IF provider_name \in DOMAIN pm THEN pm[provider_name]
                   ELSE ProviderPerformance
        updated ==
            [success_rate |-> ema(metrics.success_rate, IF success THEN 1000 ELSE 0),
             avg_response_time |-> ema(metrics.avg_response_time, response_time),
             avg_cost_efficiency |-> ema(metrics.avg_cost_efficiency, cost_efficiency),
             request_count |-> metrics.request_count + 1]
    IN [n \in DOMAIN pm \cup {provider_name} |->
          IF n = provider_name THEN updated ELSE pm[n]]

(***************************************************************************)
(* Complexity analyzer (ml/task_reasoning_engine.py).                      *)
(*                                                                         *)
(* A content string is the sequence of its whitespace-separated words, on  *)
(* one line and joined by single spaces.  Units: base scores and context   *)
(* modifiers 1/100, length and pattern modifiers 1/10, the axes of an      *)
(* analysed ComplexityScore 1/MILLION.                                     *)
(***************************************************************************)
\* 1.0 as an analysed axis: base (1/100) * context (1/100) * length (1/10) * pattern (1/10)
MILLION == 100 * 100 * 10 * 10

\* TaskReasoningEngine.__init__: the keyword lists and the patterns
TaskReasoningEngine ==
    [reasoning_keywords |->
        <<"analyze", "explain", "reason", "logic", "because", "therefore",
          "conclude", "infer", "deduce", "argue", "justify", "prove">>,
     knowledge_keywords |->
        <<"history", "science", "literature", "mathematics", "physics",
          "chemistry", "biology", "geography", "philosophy", "psychology",
          "economics", "politics", "law", "medicine", "technology">>,
     computation_keywords |->
        <<"calculate", "compute", "solve", "equation", "formula", "algorithm",
          "programming", "code", "debug", "optimize", "data", "statistics">>,
     coordination_keywords |->
        <<"plan", "schedule", "organize", "coordinate", "manage", "workflow",
          "steps", "process", "sequence", "timeline", "project", "task">>,
     high_complexity_patterns |->
        <<"multi-step|multiple steps", "complex|complicated|sophisticated",
          "detailed analysis|in-depth", "comprehensive|thorough",
          "advanced|expert level">>]

\* the search terms of the engine that occur inside a word of the model's
\* vocabulary: the word itself and the shorter terms it contains
Substrings(word) ==
    CASE word = "justify" -> {"justify", "if"}
      [] word = "steps" -> {"steps", "step"}
      [] word = "multi-step" -> {"multi-step", "step", "-"}
      [] word = "in-depth" -> {"in-depth", "-"}
      [] OTHER -> {word}

\* content.lower()
lower(content) == [i \in DOMAIN content |-> Lower(content[i])]

\* `term in content`, for a term without a space
Has(content, term) == \E i \in DOMAIN content : term \in Substrings(content[i])

\* `term in content` / re.search(term, content) for the two words "first second"
HasPhrase(content, first, second) ==
    \E i \in DOMAIN content :
        /\ i + 1 \in DOMAIN content
        /\ content[i] = first
        /\ content[i + 1] = second

\* re.search('first.*second', content)
HasInOrder(content, first, second) ==
    \E i \in DOMAIN content :
        /\ first \in Substrings(content[i])
        /\ \E j \in (i + 1)..Len(content) : second \in Substrings(content[j])

\* sum(1 for keyword in keywords if keyword in content)
keyword_count(keywords, content) ==
    Cardinality({i \in DOMAIN keywords : Has(content, keywords[i])})

IsNumber(word) == word \in {"1", "2", "3"}

\* a word matching \b[A-Z][a-z]+\b
IsCapitalised(word) == word \in {"Paris", "London", "Berlin", "Tokyo", "History", "Explain"}

\* 0.2 for each of 'if.*then', 'because.*therefore', 'since.*thus', 'given.*conclude'
logical_patterns(content) ==
    (IF HasInOrder(content, "if", "then") THEN 20 ELSE 0)
    + (IF HasInOrder(content, "because", "therefore") THEN 20 ELSE 0)
    + (IF HasInOrder(content, "since", "thus") THEN 20 ELSE 0)
    + (IF HasInOrder(content, "given", "conclude") THEN 20 ELSE 0)

\* 0.15 for each of 'why', 'how', 'what if', 'suppose'
question_words(content) ==
    (IF Has(content, "why") THEN 15 ELSE 0)
    + (IF Has(content, "how") THEN 15 ELSE 0)
    + (IF HasPhrase(content, "what", "if") THEN 15 ELSE 0)
    + (IF Has(content, "suppose") THEN 15 ELSE 0)

calculate_reasoning_score(e, content) ==
    Min(100, Min(50, keyword_count(e.reasoning_keywords, content) * 10)
             + logical_patterns(content) + question_words(content))

calculate_knowledge_score(e, content) ==
    LET proper_nouns == {i \in DOMAIN content : IsCapitalised(content[i])}
    IN Min(100, Min(60, keyword_count(e.knowledge_keywords, content) * 10)
                + (IF \E term \in {"research", "study", "theory", "concept"} :
                         Has(content, term)
                   THEN 20 ELSE 0)
                + (IF Cardinality(proper_nouns) > 3 THEN 20 ELSE 0))

calculate_computation_score(e, content) ==
    LET numbers == {i \in DOMAIN content : IsNumber(content[i])}
    IN Min(100, Min(50, keyword_count(e.computation_keywords, content) * 15)
                + (IF Cardinality(numbers) > 2 THEN 20 ELSE 0)
                + (IF \E op \in {"+", "-", "*", "/", "=", "<", ">", "%"} : Has(content, op)
                   THEN 20 ELSE 0)
                + (IF \E term \in {"function", "variable", "loop", "condition",
                                   "array", "object"} : Has(content, term)
                   THEN 30 ELSE 0))

calculate_coordination_score(e, content) ==
    LET seq_count ==
            Cardinality({term \in {"first", "second", "third", "next", "then",
                                   "finally", "step"} : Has(content, term)})
    IN Min(100, Min(40, keyword_count(e.coordination_keywords, content) * 10)
                + (IF seq_count > 2 THEN 30 ELSE 0)
                + (IF \E term \in {"coordinate", "collaborate", "integrate",
                                   "combine", "merge"} : Has(content, term)
                   THEN 30 ELSE 0))

\* len(content.split()) against 10, 50 and 200; the modifier in 1/10
get_length_modifier(content) ==
    LET word_count == Len(content)
    IN IF word_count < 10 THEN 8
       ELSE IF word_count < 50 THEN 10
       ELSE IF word_count < 200 THEN 12
       ELSE 14

\* re.search(pattern, content) for the patterns of the engine
search(pattern, content) ==
    CASE pattern = "multi-step|multiple steps" ->
             Has(content, "multi-step") \/ HasPhrase(content, "multiple", "steps")
      [] pattern = "complex|complicated|sophisticated" ->
             \E term \in {"complex", "complicated", "sophisticated"} : Has(content, term)
      [] pattern = "detailed analysis|in-depth" ->
             HasPhrase(content, "detailed", "analysis") \/ Has(content, "in-depth")
      [] pattern = "comprehensive|thorough" ->
             \E term \in {"comprehensive", "thorough"} : Has(content, term)
      [] pattern = "advanced|expert level" ->
             Has(content, "advanced") \/ HasPhrase(content, "expert", "level")
      [] OTHER -> Has(content, pattern)

\* 1.0 plus 0.2 for each pattern found, at most 2.0; in 1/10
get_pattern_modifier(e, content) ==
    LET patterns == e.high_complexity_patterns
    IN Min(20, 10 + 2 * Cardinality({i \in DOMAIN patterns : search(patterns[i], content)}))

AnalysisContextKeys == {"priority", "complexity_hint", "domain"}

\* the modifier of one dimension, in 1/100
get_context_modifier(context, dimension) ==
    LET hint == Lower(context.complexity_hint.s)
        domain == Lower(context.domain.s)
        hinted == IF ~Truthy(context.complexity_hint) THEN 100
                  ELSE IF hint \in {"high", "complex", "advanced"} THEN 150
                  ELSE IF hint \in {"low", "simple", "basic"} THEN 70
                  ELSE 100
    IN IF ~Truthy(context.domain) THEN hinted
       ELSE IF dimension = "knowledge" /\ domain \in {"academic", "research", "technical"}
       THEN (hinted * 13) \div 10
       ELSE IF dimension = "computation" /\ domain \in {"programming", "math", "engineering"}
       THEN (hinted * 14) \div 10
       ELSE hinted

\* an axis that is left as the modifiers made it
clamp_axis_unclamped(score) == score

\* min(1.0, score) on a modified axis
clamp_axis(score) == Min(MILLION, score)

\* (reasoning + knowledge + computation + coordination) / 4, kept as the sum:
\* in quarters of the unit of the axes
total_score(score) ==
    score.reasoning + score.knowledge + score.computation + score.coordination

\* a classification that puts the boundary totals into the lower level
complexity_level_inclusive(score) ==
    IF total_score(score) * 10 <= 4 * 4 * MILLION THEN "low"
    ELSE IF total_score(score) * 10 <= 7 * 4 * MILLION THEN "medium"
    ELSE "high"

\* ComplexityScore.complexity_level of a score with axes in 1/MILLION:
\* total_score < 0.4, < 0.7, otherwise
complexity_level(score) ==
    IF total_score(score) * 10 < 4 * 4 * MILLION THEN "low"
    ELSE IF total_score(score) * 10 < 7 * 4 * MILLION THEN "medium"
    ELSE "high"

\* an analysis that remembers the words it has seen in the engine's lists
engine_after_analysis_learning(e, content) ==
    IF content = <<>> THEN e
    ELSE [e EXCEPT !.reasoning_keywords = Append(@, Lower(content[1]))]

\* analyze_complexity only reads self.*_keywords and self.high_complexity_patterns
engine_after_analysis(e, content) == e

analyze_complexity(e, content, context) ==
    LET content_lower == lower(content)
        modifier(dimension) ==
            IF DictTruthy(context, AnalysisContextKeys)
            THEN get_context_modifier(context, dimension)
            ELSE 100
        length_modifier == get_length_modifier(content)
        pattern_modifier == get_pattern_modifier(e, content_lower)
        final(base, dimension) ==
            clamp_axis(base * modifier(dimension) * length_modifier * pattern_modifier)
    IN [score |->
           [reasoning |-> final(calculate_reasoning_score(e, content_lower), "reasoning"),
            knowledge |-> final(calculate_knowledge_score(e, content_lower), "knowledge"),
            computation |->
                final(calculate_computation_score(e, content_lower), "computation"),
            coordination |->
                final(calculate_coordination_score(e, content_lower), "coordination")],
        base |->
           [reasoning |-> calculate_reasoning_score(e, content_lower),
            knowledge |-> calculate_knowledge_score(e, content_lower),
            computation |-> calculate_computation_score(e, content_lower),
            coordination |-> calculate_coordination_score(e, content_lower)],
        engine |-> engine_after_analysis(e, content)]

(***************************************************************************)
(* Metrics collector (monitoring/metrics_collector.py).  Timestamps are    *)
(* whole seconds, response times 1/1000 s, costs 1/100000.                 *)
(***************************************************************************)
SecondsPerHour == 3600

RequestMetric(timestamp, provider, model, success, response_time, cost, input_tokens, output_tokens, level, error_type) ==
    [timestamp |-> timestamp, provider |-> provider, model |-> model,
     success |-> success, response_time |-> response_time, cost |-> cost,
     input_tokens |-> input_tokens, output_tokens |-> output_tokens,
     complexity_level |-> level, error_type |-> error_type]

ProviderMetrics(name) ==
    [name |-> name, total_requests |-> 0, successful_requests |-> 0,
     failed_requests |-> 0, total_response_time |-> 0, total_cost |-> 0,
     total_tokens |-> 0, last_request_time |-> 0 - 1,
     error_counts |-> [e \in {} |-> 0]]

ComplexityLevels == {"low", "medium", "high"}

\* MetricsCollector.__init__
MetricsCollector ==
    [request_metrics |-> <<>>,
     provider_metrics |-> [n \in {} |-> ProviderMetrics(n)],
     hourly_stats |-> [h \in {} |-> 0],
     complexity_stats |-> [l \in ComplexityLevels |-> 0]]

\* d[key] += 1 on a defaultdict(int) or through d.get(key, 0)
Increment(d, key) ==
    [k \in DOMAIN d \cup {key} |-> IF k = key
                                   THEN (IF k \in DOMAIN d THEN d[k] ELSE 0) + 1
                                   ELSE d[k]]

\* _update_provider_metrics
update_provider_aggregate(provider_metrics, metric) ==
    LET pm == IF metric.provider \in DOMAIN provider_metrics
              THEN provider_metrics[metric.provider]
              ELSE ProviderMetrics(metric.provider)
        counted ==
            [pm EXCEPT !.total_requests = @ + 1,
                       !.total_response_time = @ + metric.response_time,
                       !.total_cost = @ + metric.cost,
                       !.total_tokens = @ + metric.input_tokens + metric.output_tokens,
                       !.last_request_time = metric.timestamp]
        updated ==
            IF metric.success
            THEN [counted EXCEPT !.successful_requests = @ + 1]
            ELSE IF metric.error_type # ""
            THEN [counted EXCEPT !.failed_requests = @ + 1,
                                 !.error_counts = Increment(@, metric.error_type)]
            ELSE [counted EXCEPT !.failed_requests = @ + 1]
    IN [n \in DOMAIN provider_metrics \cup {metric.provider} |->
          IF n = metric.provider THEN updated ELSE provider_metrics[n]]

\* datetime.fromtimestamp(timestamp).strftime("%Y-%m-%d-%H"): the hour of the
\* timestamp, counted from the epoch
hour_key(timestamp) == timestamp \div SecondsPerHour

HourlyStats ==
    [requests |-> 0, successes |-> 0, total_cost |-> 0, total_response_time |-> 0,
     providers |-> [n \in {} |-> 0], complexity |-> [l \in ComplexityLevels |-> 0]]

\* stats["complexity"][metric.complexity_level] += 1 raises KeyError for a level
\* that is not a key
hourly_stats_raises(metric) == metric.complexity_level \notin ComplexityLevels

\* _update_hourly_stats
update_hourly_stats(hourly_stats, metric) ==
    LET key == hour_key(metric.timestamp)
        stats == IF key \in DOMAIN hourly_stats THEN hourly_stats[key] ELSE HourlyStats
        counted ==
            [stats EXCEPT !.requests = @ + 1,
                          !.total_cost = @ + metric.cost,
                          !.total_response_time = @ + metric.response_time,
                          !.providers = Increment(@, metric.provider)]
        updated ==
            IF hourly_stats_raises(metric) THEN counted
            ELSE IF metric.success
            THEN [counted EXCEPT !.complexity = Increment(@, metric.complexity_level),
                                 !.successes = @ + 1]
            ELSE [counted EXCEPT !.complexity = Increment(@, metric.complexity_level)]
    IN [h \in DOMAIN hourly_stats \cup {key} |->
          IF h = key THEN updated ELSE hourly_stats[h]]

\* self.complexity_stats[complexity_level] += 1 raises KeyError for a level
\* that is not a key
complexity_stats_raises(complexity_stats, level) == level \notin DOMAIN complexity_stats

\* record_request: the collector after the call and whether the call raised
record_request(c, now, provider_name, model, success, response_time, cost, input_tokens, output_tokens, level, error_type) ==
    LET metric == RequestMetric(now, provider_name, model, success, response_time,
                                cost, input_tokens, output_tokens, level, error_type)
        stored == [c EXCEPT !.request_metrics = Append(@, metric),
                            !.provider_metrics = update_provider_aggregate(@, metric)]
    IN IF complexity_stats_raises(c.complexity_stats, level)
       THEN [raised |-> TRUE, collector |-> stored]
       ELSE [raised |-> hourly_stats_raises(metric),
             collector |->
                [stored EXCEPT !.complexity_stats = Increment(@, level),
                               !.hourly_stats = update_hourly_stats(@, metric)]]

\* retention_hours=24 of MetricsCollector.__init__
RetentionHours == 24

\* a sweep that keeps the metric whose timestamp is the cutoff time itself
cleanup_old_metrics_inclusive(c, now) ==
    LET cutoff_time == now - RetentionHours * SecondsPerHour
    IN [c EXCEPT !.request_metrics = SelectSeq(@, LAMBDA m : m.timestamp >= cutoff_time),
                 !.hourly_stats = [h \in {k \in DOMAIN @ : k >= hour_key(cutoff_time)} |-> @[h]]]

\* a sweep that removes at most one expired metric, the oldest, each time it runs
cleanup_old_metrics_oldest_only(c, now) ==
    LET cutoff_time == now - RetentionHours * SecondsPerHour
        log == c.request_metrics
    IN [c EXCEPT !.request_metrics =
                     IF log # <<>> /\ log[1].timestamp <= cutoff_time THEN Tail(log) ELSE log,
                 !.hourly_stats = [h \in {k \in DOMAIN @ : k >= hour_key(cutoff_time)} |-> @[h]]]

\* _cleanup_old_metrics: the log keeps the metrics later than the cutoff time,
\* the hourly statistics lose the keys before the hour of the cutoff time
cleanup_old_metrics(c, now) ==
    LET cutoff_time == now - RetentionHours * SecondsPerHour
        cutoff_hour == hour_key(cutoff_time)
        old_hours == {h \in DOMAIN c.hourly_stats : h < cutoff_hour}
    IN [c EXCEPT !.request_metrics = SelectSeq(@, LAMBDA m : m.timestamp > cutoff_time),
                 !.hourly_stats = [h \in DOMAIN @ \ old_hours |-> @[h]]]

\* sum(f(m) for m in metrics)
RECURSIVE SumOver(_, _)
SumOver(metrics, field) ==
    IF metrics = <<>> THEN 0 ELSE Head(metrics)[field] + SumOver(Tail(metrics), field)

\* _calculate_requests_per_hour: the metrics of the last hour
calculate_requests_per_hour(c, now) ==
    Len(SelectSeq(c.request_metrics, LAMBDA m : m.timestamp > now - SecondsPerHour))

\* $0.002 per request for premium, in 1/100000
PremiumCostPerRequest == 200

\* get_system_metrics, without the uptime; success_rate in 1/1000 and
\* avg_response_time in 1/1000 s, rounded down
get_system_metrics(c, now) ==
    LET total_requests == Len(c.request_metrics)
        successful_requests == Len(SelectSeq(c.request_metrics, LAMBDA m : m.success))
        total_cost == SumOver(c.request_metrics, "cost")
        total_response_time == SumOver(c.request_metrics, "response_time")
        estimated_premium_cost == total_requests * PremiumCostPerRequest
    IN [total_requests |-> total_requests,
        successful_requests |-> successful_requests,
        failed_requests |-> total_requests - successful_requests,
        success_rate |-> IF total_requests > 0
                         THEN (successful_requests * 1000) \div total_requests ELSE 0,
        avg_response_time |-> IF total_requests > 0
                              THEN total_response_time \div total_requests ELSE 0,
        total_cost |-> total_cost,
        cost_savings |-> Max(0, estimated_premium_cost - total_cost),
        active_providers |-> Cardinality(DOMAIN c.provider_metrics),
        complexity_distribution |-> c.complexity_stats,
        requests_per_hour |-> calculate_requests_per_hour(c, now)]

\* get_provider_metrics: the counts of the aggregate, zeros for a name without one
get_provider_metrics(c, provider_name) ==
    IF provider_name \notin DOMAIN c.provider_metrics
    THEN [name |-> provider_name, total_requests |-> 0, total_cost |-> 0,
          last_used |-> 0 - 1]
    ELSE LET pm == c.provider_metrics[provider_name]
         IN [name |-> pm.name, total_requests |-> pm.total_requests,
             successful_requests |-> pm.successful_requests,
             failed_requests |-> pm.failed_requests,
             total_cost |-> pm.total_cost, total_tokens |-> pm.total_tokens,
             last_used |-> pm.last_request_time,
             error_breakdown |-> pm.error_counts]

(***************************************************************************)
(* Inputs of the operations.                                               *)
(***************************************************************************)
ComplexityScore(r, k, c, o) ==
    [reasoning |-> r, knowledge |-> k, computation |-> c, coordination |-> o]

LowComplexity == ComplexityScore(20, 20, 20, 20)

MixedComplexity == ComplexityScore(100, 80, 50, 20)

HighComplexity == ComplexityScore(100, 100, 100, 100)

ComplexityScores == {LowComplexity, MixedComplexity, HighComplexity}

Context(priority, hint) == [isNone |-> FALSE, priority |-> priority, complexity_hint |-> hint]

NoContext == [isNone |-> TRUE, priority |-> Absent, complexity_hint |-> Absent]

Contexts ==
    {NoContext, Context(Absent, Absent), Context(Absent, Str("high"))}
    \cup {Context(Str(p), Absent) : p \in {"cost", "performance", "quality", "speed"}}

Constraints(max_cost, max_timeout, tiers, model, budget) ==
    [isNone |-> FALSE, max_cost_per_1k |-> max_cost, max_timeout |-> max_timeout,
     allowed_tiers |-> tiers, required_model |-> model, budget_weight |-> budget]

NoConstraints ==
    [isNone |-> TRUE, max_cost_per_1k |-> Absent, max_timeout |-> Absent,
     allowed_tiers |-> Absent, required_model |-> Absent, budget_weight |-> Absent]

EmptyConstraints == Constraints(Absent, Absent, Absent, Absent, Absent)

MaxCostValues == {Num(0), Num(5), Str("cheap")}

MaxTimeoutValues == {Num(0), Num(30), Str("fast")}

AllowedTiersValues ==
    {List(<<>>), List(<<"official">>), List(<<"community", "unofficial">>),
     List(<<"premium">>)}

RequiredModelValues == {Str(""), Str("llama"), Num(4)}

BudgetWeightValues == {Num(0), Num(5), Num(20), Num(0 - 10), Str("high")}

\* constraint maps with one key
SingleConstraints ==
    {Constraints(v, Absent, Absent, Absent, Absent) : v \in MaxCostValues}
    \cup {Constraints(Absent, v, Absent, Absent, Absent) : v \in MaxTimeoutValues}
    \cup {Constraints(Absent, Absent, v, Absent, Absent) : v \in AllowedTiersValues}
    \cup {Constraints(Absent, Absent, Absent, v, Absent) : v \in RequiredModelValues}
    \cup {Constraints(Absent, Absent, Absent, Absent, v) : v \in BudgetWeightValues}

\* constraint maps with several keys
MixedConstraints ==
    { Constraints(Num(5), Num(60), List(<<"community", "unofficial">>), Str("llama"), Absent),
      Constraints(Num(200), Num(30), Absent, Str("gpt-4"), Num(5)),
      Constraints(Num(5), Absent, List(<<"premium">>), Absent, Absent),
      Constraints(Str("cheap"), Absent, List(<<"official">>), Absent, Absent) }

\* the filter reads the constraints only; the scores read the complexity, the
\* context and budget_weight
SelectInputs ==
    (ComplexityScores \X Contexts \X {NoConstraints})
    \cup ({HighComplexity} \X {NoContext}
          \X ({EmptyConstraints} \cup SingleConstraints \cup MixedConstraints))

\* the names the callers pass: a provider's configured name or its registry key
NamesOf(dict) == {dict[i].cfg.name : i \in DOMAIN dict} \cup Keys(dict)

\* health scores passed to update_provider_health, in 1/100
HealthInputs == {5, 150}

\* (response_time, success, cost_efficiency) samples, in 1/1000
MetricSamples == {<<2000, TRUE, 1000>>, <<20000, FALSE, 500>>}

(***************************************************************************)
(* The state machine.                                                      *)
(***************************************************************************)
Init ==
    /\ \E rows \in SeqsUpTo(ProviderRows, MaxRows) :
          /\ csv_rows = rows
          /\ providers = load_providers(rows, <<>>)
    /\ performance_metrics = InitialMetrics(providers)
    /\ engine = TaskReasoningEngine
    /\ collector = MetricsCollector
    /\ clock = 0
    /\ handlers = <<>>
    /\ \E input \in SelectInputs :
           request = [complexity_score |-> input[1], context |-> input[2],
                      constraints |-> input[3]]
    /\ last = [op |-> "init"]
    /\ ops = 0

\* the request handler's call select_provider(complexity_score, context, constraints)
SelectProvider ==
    \E result \in {select_provider(providers, performance_metrics,
                                     request.complexity_score, request.context,
                                     request.constraints)} :
       /\ last' = [op |-> "select", outcome |-> result.outcome,
                   provider |-> result.provider, score |-> result.score,
                   available |-> result.available,
                   provider_scores |-> result.provider_scores]
       /\ performance_metrics' = result.pm
       /\ UNCHANGED <<providers, request, ops, csv_rows, engine, collector, clock, handlers>>

UpdateProviderHealth ==
    \E name \in NamesOf(providers), health_score \in HealthInputs :
        /\ ops < MaxOps
        /\ providers' = update_provider_health(providers, name, health_score)
        /\ last' = [op |-> "update_provider_health"]
        /\ ops' = ops + 1
        /\ UNCHANGED <<performance_metrics, request, csv_rows, engine, collector, clock, handlers>>

UpdateProviderMetrics ==
    \E name \in NamesOf(providers), sample \in MetricSamples :
        /\ ops < MaxOps
        /\ performance_metrics' =
               update_provider_metrics(performance_metrics, name,
                                       sample[1], sample[2], sample[3])
        /\ last' = [op |-> "update_provider_metrics"]
        /\ ops' = ops + 1
        /\ UNCHANGED <<providers, request, csv_rows, engine, collector, clock, handlers>>

Next ==
    \/ SelectProvider
    \/ UpdateProviderHealth
    \/ UpdateProviderMetrics

Spec == Init /\ [][Next]_vars

(***************************************************************************)
(* The scoring functions on two providers that differ in cost only.        *)
(***************************************************************************)
\* cost_per_1k_tokens values, in 1/100000 (0.01 is 1000)
CostValues == {0, 5, 200, 1000, 2000}

CostPairs == {pair \in CostValues \X CostValues : pair[1] < pair[2]}

PriorityContexts ==
    {NoContext} \cup {Context(Str(p), Absent) : p \in {"cost", "performance", "quality"}}

NumericBudgets ==
    {NoConstraints}
    \cup {Constraints(Absent, Absent, Absent, Absent, v) :
            v \in {Num(0), Num(5), Num(20), Num(0 - 10)}}

InitScore ==
    /\ \E row \in ProviderRows :
          /\ csv_rows = <<row>>
          /\ providers = load_providers(<<row>>, <<>>)
    /\ performance_metrics = InitialMetrics(providers)
    /\ engine = TaskReasoningEngine
    /\ collector = MetricsCollector
    /\ clock = 0
    /\ handlers = <<>>
    /\ \E cs \in ComplexityScores, ctx \in PriorityContexts, c \in NumericBudgets,
          pair \in CostPairs :
           request = [complexity_score |-> cs, context |-> ctx, constraints |-> c,
                      costs |-> pair]
    /\ last = [op |-> "init"]
    /\ ops = 0

\* _calculate_cost_score and _calculate_provider_score on a registered provider
\* priced at costs[1] and at costs[2]
ScoreCostPair ==
    \E i \in DOMAIN providers :
        LET cheap == [providers[i].cfg EXCEPT !.cost_per_1k_tokens = request.costs[1]]
            dear == [providers[i].cfg EXCEPT !.cost_per_1k_tokens = request.costs[2]]
            total(p) == calculate_provider_score(performance_metrics, p,
                                                 request.complexity_score,
                                                 request.context, request.constraints)
        IN /\ last' = [op |-> "score_pair",
                       cost_scores |-> <<calculate_cost_score(cheap, request.constraints),
                                         calculate_cost_score(dear, request.constraints)>>,
                       totals |-> <<total(cheap), total(dear)>>]
           /\ UNCHANGED <<providers, performance_metrics, request, ops,
                          csv_rows, engine, collector, clock, handlers>>

NextScore ==
    \/ ScoreCostPair
    \/ UpdateProviderHealth
    \/ UpdateProviderMetrics

SpecScore == InitScore /\ [][NextScore]_vars

(***************************************************************************)
(* The complexity analyzer on the contents and contexts of the model.      *)
(***************************************************************************)
AnalysisContext(hint, domain) ==
    [isNone |-> FALSE, priority |-> Absent, complexity_hint |-> hint, domain |-> domain]

NoAnalysisContext ==
    [isNone |-> TRUE, priority |-> Absent, complexity_hint |-> Absent, domain |-> Absent]

AnalysisContexts ==
    {NoAnalysisContext, AnalysisContext(Absent, Absent),
     AnalysisContext(Str("high"), Absent), AnalysisContext(Str("HIGH"), Str("Academic")),
     AnalysisContext(Str("advanced"), Str("programming")),
     AnalysisContext(Str("low"), Str("research")),
     AnalysisContext(Str("medium"), Str("math")),
     AnalysisContext(Str(""), Str("cooking"))}

ReasoningPhrases ==
    {<<>>, <<"Explain", "why">>,
     <<"analyze", "explain", "reason", "logic", "because", "therefore",
       "if", "then", "why", "how", "suppose">>}

KnowledgePhrases ==
    {<<>>, <<"History">>,
     <<"history", "science", "physics", "chemistry", "biology", "law", "medicine",
       "research">>}

ProperNounPhrases == {<<>>, <<"Paris", "London", "Berlin", "Tokyo">>}

ComputationPhrases ==
    {<<>>, <<"solve", "1", "+", "2">>,
     <<"calculate", "compute", "solve", "code", "data", "1", "2", "3", "=", "function">>}

CoordinationPhrases ==
    {<<>>, <<"plan">>,
     <<"plan", "schedule", "organize", "manage", "steps", "first", "next", "finally",
       "coordinate">>}

PatternPhrases ==
    {<<>>, <<"complex">>,
     <<"multi-step", "complex", "in-depth", "comprehensive", "advanced">>}

\* n words that match nothing
Filler(n) == [i \in 1..n |-> "the"]

\* numbers of filler words that put the word count on both sides of the length
\* thresholds 10, 50 and 200
FillerLengths == {5, 45, 195}

Bodies ==
    {r \o k \o p \o c \o o \o h :
        r \in ReasoningPhrases, k \in KnowledgePhrases, p \in ProperNounPhrases,
        c \in ComputationPhrases, o \in CoordinationPhrases, h \in PatternPhrases}

\* the bodies that are padded: nothing, a little of everything, all of everything
PaddedBodies ==
    {<<>>,
     <<"Explain", "why", "History", "solve", "1", "+", "2", "plan", "complex">>,
     <<"analyze", "explain", "reason", "logic", "because", "therefore",
       "if", "then", "why", "how", "suppose",
       "history", "science", "physics", "chemistry", "biology", "law", "medicine",
       "research", "Paris", "London", "Berlin", "Tokyo",
       "calculate", "compute", "solve", "code", "data", "1", "2", "3", "=", "function",
       "plan", "schedule", "organize", "manage", "steps", "first", "next", "finally",
       "coordinate",
       "multi-step", "complex", "in-depth", "comprehensive", "advanced">>}

Contents ==
    Bodies \cup {body \o Filler(n) : body \in PaddedBodies, n \in FillerLengths}

InitAnalyze ==
    /\ providers = <<>>
    /\ csv_rows = <<>>
    /\ performance_metrics = InitialMetrics(providers)
    /\ engine = TaskReasoningEngine
    /\ collector = MetricsCollector
    /\ clock = 0
    /\ handlers = <<>>
    /\ \E content \in Contents, context \in AnalysisContexts :
           request = [content |-> content, context |-> context]
    /\ last = [op |-> "init"]
    /\ ops = 0

\* task_engine.analyze_complexity(content, request.context) of the request handler
AnalyzeComplexity ==
    \E result \in {analyze_complexity(engine, request.content, request.context)} :
        /\ last' = [op |-> "analyze_complexity", score |-> result.score,
                    base |-> result.base, total_score |-> total_score(result.score),
                    complexity_level |-> complexity_level(result.score)]
        /\ engine' = result.engine
        /\ UNCHANGED <<providers, csv_rows, performance_metrics, request, ops,
                       collector, clock, handlers>>

NextAnalyze == AnalyzeComplexity

SpecAnalyze == InitAnalyze /\ [][NextAnalyze]_vars

(***************************************************************************)
(* ComplexityScore.complexity_level as a function of the four axes.        *)
(***************************************************************************)
\* axis values in 1/MILLION around the totals 0.4 and 0.7
AxisValues == {0, 360000, 390000, 400000, 440000, 690000, 700000, 710000, MILLION}

InitLevel ==
    /\ providers = <<>>
    /\ csv_rows = <<>>
    /\ performance_metrics = InitialMetrics(providers)
    /\ engine = TaskReasoningEngine
    /\ collector = MetricsCollector
    /\ clock = 0
    /\ handlers = <<>>
    /\ \E r \in AxisValues, k \in AxisValues, c \in AxisValues, o \in AxisValues :
           request = [complexity_score |-> ComplexityScore(r, k, c, o)]
    /\ last = [op |-> "init"]
    /\ ops = 0

ClassifyScore ==
    /\ last' = [op |-> "complexity_level",
                total_score |-> total_score(request.complexity_score),
                complexity_level |-> complexity_level(request.complexity_score)]
    /\ UNCHANGED <<providers, csv_rows, performance_metrics, request, ops,
                   engine, collector, clock, handlers>>

NextLevel == ClassifyScore

SpecLevel == InitLevel /\ [][NextLevel]_vars

(***************************************************************************)
(* Requests whose contents are analysed one after another as they arrive.  *)
(***************************************************************************)
\* the contents and contexts of the arriving requests
CallInputs ==
    {<<>>, <<"History">>, <<"history", "if", "then">>,
     <<"solve", "1", "+", "2", "complex">>}
    \X {NoAnalysisContext, AnalysisContext(Str("high"), Absent),
        AnalysisContext(Str("low"), Str("math"))}

InitCalls ==
    /\ providers = <<>>
    /\ csv_rows = <<>>
    /\ performance_metrics = InitialMetrics(providers)
    /\ engine = TaskReasoningEngine
    /\ collector = MetricsCollector
    /\ clock = 0
    /\ handlers = <<>>
    /\ request = [op |-> "none"]
    /\ last = [op |-> "init"]
    /\ ops = 0

\* chat_completions up to its first await: the content of the arriving request
\* is analysed before any other request runs
HandleAnalysis ==
    \E input \in CallInputs :
      \E result \in {analyze_complexity(engine, input[1], input[2])} :
        /\ Len(handlers) < MaxCalls
        /\ handlers' = Append(handlers, [content |-> input[1], context |-> input[2],
                                         score |-> result.score])
        /\ engine' = result.engine
        /\ UNCHANGED <<providers, csv_rows, performance_metrics, request, last, ops,
                       collector, clock>>

NextCalls == HandleAnalysis

SpecCalls == InitCalls /\ [][NextCalls]_vars

(***************************************************************************)
(* The performance tracker under requests in flight.  A request handler    *)
(* runs on the event loop: it runs alone from one await to the next, so    *)
(* chat_completions is two steps, up to the awaits that follow the         *)
(* selection and from there to its return.                                 *)
(***************************************************************************)
Row(name) == CHOOSE row \in ProviderRows : row.name = name

\* the provider files of the tracker's registry
TrackerRows == {<<Row("groq"), Row("openai")>>, <<Row("Local")>>}

\* the names passed by direct callers of update_provider_metrics
TrackerNames == {"groq", "Local", "ghost"}

\* response times of the requests, in 1/1000 s
ResponseTimes == {2000, 20000}

\* cost efficiencies, in 1/1000
CostEfficiencies == {1000, 0}

InitTracker ==
    /\ \E rows \in TrackerRows :
          /\ csv_rows = rows
          /\ providers = load_providers(rows, <<>>)
    /\ performance_metrics = InitialMetrics(providers)
    /\ engine = TaskReasoningEngine
    /\ collector = MetricsCollector
    /\ clock = 0
    /\ handlers = <<>>
    /\ \E context \in {NoContext, Context(Str("performance"), Absent)} :
           request = [complexity_score |-> HighComplexity, context |-> context,
                      constraints |-> NoConstraints]
    /\ last = [op |-> "init"]
    /\ ops = 0

\* lines 152-180 of chat_completions: the selection and the awaits after it, for
\* a request whose selection is reached
StartRequest ==
    \E result \in {select_provider(providers, performance_metrics,
                                     request.complexity_score, request.context,
                                     request.constraints)} :
        /\ Len(handlers) < MaxRequests
        /\ result.outcome = "provider"
        /\ handlers' = Append(handlers,
                              [pc |-> "awaiting", provider_name |-> result.provider.name,
                               response_time |-> 0, success |-> TRUE,
                               cost_efficiency |-> 0,
                               overlaps |-> \E j \in DOMAIN handlers :
                                               handlers[j].pc = "awaiting"])
        /\ performance_metrics' = result.pm
        /\ last' = [op |-> "start_request"]
        /\ UNCHANGED <<providers, csv_rows, request, ops, engine, collector, clock>>

\* chat_completions from the last await to its return:
\* update_provider_metrics(selected_provider.name, response_time, True, ...)
FinishRequest ==
    \E i \in DOMAIN handlers, response_time \in ResponseTimes,
       cost_efficiency \in CostEfficiencies :
        /\ handlers[i].pc = "awaiting"
        /\ performance_metrics' =
               update_provider_metrics(performance_metrics, handlers[i].provider_name,
                                       response_time, TRUE, cost_efficiency)
        /\ handlers' = [handlers EXCEPT ![i].pc = "done",
                                        ![i].response_time = response_time,
                                        ![i].cost_efficiency = cost_efficiency]
        /\ last' = [op |-> "update_provider_metrics", call |-> i]
        /\ UNCHANGED <<providers, csv_rows, request, ops, engine, collector, clock>>

\* a direct call update_provider_metrics(name, response_time, success, cost_efficiency)
CallUpdateProviderMetrics ==
    \E name \in TrackerNames, response_time \in ResponseTimes, success \in BOOLEAN :
        /\ Len(handlers) < MaxRequests
        /\ performance_metrics' =
               update_provider_metrics(performance_metrics, name, response_time,
                                       success, 1000)
        /\ handlers' = Append(handlers,
                              [pc |-> "done", provider_name |-> name,
                               response_time |-> response_time, success |-> success,
                               cost_efficiency |-> 1000,
                               overlaps |-> \E j \in DOMAIN handlers :
                                               handlers[j].pc = "awaiting"])
        /\ last' = [op |-> "update_provider_metrics", call |-> Len(handlers) + 1]
        /\ UNCHANGED <<providers, csv_rows, request, ops, engine, collector, clock>>

NextTracker ==
    \/ StartRequest
    \/ FinishRequest
    \/ CallUpdateProviderMetrics

SpecTracker == InitTracker /\ [][NextTracker]_vars

(***************************************************************************)
(* The provider registry under load, reload, lookup and health updates.    *)
(***************************************************************************)
\* the rows of the model and a second row for the name "local"
RegistryRows ==
    ProviderRows
    \cup {ProviderConfig("local", "community", "key", <<"llama">>, 60, 60, 5, 3)}

\* the spellings under which callers name a provider
Casings(name) ==
    CASE Lower(name) = "local" -> {"local", "Local", "LOCAL"}
      [] Lower(name) = "openai" -> {"openai", "OpenAI"}
      [] OTHER -> {name}

\* health scores passed to update_provider_health, in 1/100
HealthScores == {0 - 20, 0, 5, 50, 100, 150}

LookupNames == {"local", "Local", "LOCAL", "openai", "OpenAI", "groq", "ghost"}

InitRegistry ==
    /\ \E rows \in SeqsUpTo(RegistryRows, MaxRows) :
          /\ csv_rows = rows
          /\ providers = load_providers(rows, <<>>)
    /\ performance_metrics = InitialMetrics(providers)
    /\ engine = TaskReasoningEngine
    /\ collector = MetricsCollector
    /\ clock = 0
    /\ handlers = <<>>
    /\ request = [op |-> "none"]
    /\ last = [op |-> "load_providers"]
    /\ ops = 0

\* CSVProviderLoader.reload_providers: clear the dict and load the file again
reload_providers(dict, rows) == load_providers(rows, <<>>)

ReloadProviders ==
    /\ providers' = reload_providers(providers, csv_rows)
    /\ last' = [op |-> "reload_providers"]
    /\ UNCHANGED <<csv_rows, performance_metrics, request, ops, engine, collector,
                   clock, handlers>>

GetProvider ==
    \E name \in LookupNames :
        /\ last' = [op |-> "get_provider", name |-> name,
                    found |-> get_provider(providers, name)]
        /\ UNCHANGED <<providers, csv_rows, performance_metrics, request, ops, engine,
                       collector, clock, handlers>>

SetProviderHealth ==
    \E name \in LookupNames, health_score \in HealthScores :
        /\ ops < MaxOps
        /\ providers' = update_provider_health(providers, name, health_score)
        /\ last' = [op |-> "update_provider_health", name |-> name,
                    health_score |-> health_score]
        /\ ops' = ops + 1
        /\ UNCHANGED <<csv_rows, performance_metrics, request, engine, collector,
                       clock, handlers>>

NextRegistry ==
    \/ ReloadProviders
    \/ GetProvider
    \/ SetProviderHealth

SpecRegistry == InitRegistry /\ [][NextRegistry]_vars

(***************************************************************************)
(* The selector built from the registry of the loader (lifespan): both     *)
(* hold the same dict.  handlers is the list of the loader calls made.     *)
(***************************************************************************)
\* health scores on both sides of the floor of the filter, in 1/100
FloorHealthScores == {5, 10}

InitHealth ==
    /\ \E rows \in SeqsUpTo(ProviderRows, MaxRows) :
          /\ csv_rows = rows
          /\ providers = load_providers(rows, <<>>)
    /\ performance_metrics = InitialMetrics(providers)
    /\ engine = TaskReasoningEngine
    /\ collector = MetricsCollector
    /\ clock = 0
    /\ handlers = <<>>
    /\ request = [complexity_score |-> HighComplexity, context |-> NoContext,
                  constraints |-> NoConstraints]
    /\ last = [op |-> "init"]
    /\ ops = 0

\* provider_loader.update_provider_health(name, health_score)
HealthUpdate ==
    \E name \in NamesOf(providers), health_score \in FloorHealthScores :
        /\ Len(handlers) < MaxCalls
        /\ providers' = update_provider_health(providers, name, health_score)
        /\ handlers' = Append(handlers, [op |-> "update_provider_health", name |-> name,
                                         health_score |-> health_score])
        /\ last' = [op |-> "update_provider_health"]
        /\ UNCHANGED <<csv_rows, performance_metrics, request, ops, engine, collector,
                       clock>>

\* provider_loader.reload_providers(): the dict the selector holds is cleared
\* and filled again
HealthReload ==
    /\ Len(handlers) < MaxCalls
    /\ providers' = reload_providers(providers, csv_rows)
    /\ handlers' = Append(handlers, [op |-> "reload_providers", name |-> "",
                                     health_score |-> 100])
    /\ last' = [op |-> "reload_providers"]
    /\ UNCHANGED <<csv_rows, performance_metrics, request, ops, engine, collector, clock>>

\* provider_selector.select_provider(complexity_score, context, constraints)
HealthSelect ==
    \E result \in {select_provider(providers, performance_metrics,
                                     request.complexity_score, request.context,
                                     request.constraints)} :
       /\ last' = [op |-> "select", outcome |-> result.outcome,
                   provider |-> result.provider, score |-> result.score,
                   available |-> result.available,
                   provider_scores |-> result.provider_scores]
       /\ performance_metrics' = result.pm
       /\ UNCHANGED <<providers, request, ops, csv_rows, engine, collector, clock,
                      handlers>>

NextHealth ==
    \/ HealthUpdate
    \/ HealthReload
    \/ HealthSelect

SpecHealth == InitHealth /\ [][NextHealth]_vars

(***************************************************************************)
(* The metrics collector under the record_request calls of the handler.    *)
(***************************************************************************)
\* (provider, model, success, response_time, cost, input_tokens, output_tokens,
\*  complexity_level, error_type) of a call; error_type "" is None
RecordInputs ==
    {<<p, "llama", TRUE, 1500, 5, 10, 20, level, "">> :
        p \in {"groq", "openai"}, level \in ComplexityLevels}
    \cup {<<"groq", "llama", FALSE, 30000, 0, 10, 0, "high", "TimeoutError">>,
          <<"groq", "llama", FALSE, 30000, 0, 10, 0, "low", "">>,
          <<"unknown", "unknown", FALSE, 100, 0, 0, 0, "unknown", "HTTPException">>}

\* the clock when the collector is created: half an hour before a full hour
StartTime == 1800

\* the clock moves on by half an hour
TickSeconds == 1800

InitCollector ==
    /\ providers = <<>>
    /\ csv_rows = <<>>
    /\ performance_metrics = InitialMetrics(providers)
    /\ engine = TaskReasoningEngine
    /\ collector = MetricsCollector
    /\ clock = StartTime
    /\ handlers = <<>>
    /\ request = [op |-> "none"]
    /\ last = [op |-> "init"]
    /\ ops = 0

\* the background task metrics_collector.record_request(...) of a request
RecordRequest ==
    \E input \in RecordInputs :
      \E result \in {record_request(collector, clock, input[1], input[2], input[3],
                                     input[4], input[5], input[6], input[7], input[8],
                                     input[9])} :
        /\ Len(collector.request_metrics) < MaxRecords
        /\ collector' = result.collector
        /\ last' = [op |-> "record_request", input |-> input, raised |-> result.raised]
        /\ UNCHANGED <<providers, csv_rows, performance_metrics, request, ops, engine,
                       clock, handlers>>

\* time passes
Tick ==
    /\ clock < StartTime + MaxTicks * TickSeconds
    /\ clock' = clock + TickSeconds
    /\ last' = [op |-> "tick"]
    /\ UNCHANGED <<providers, csv_rows, performance_metrics, request, ops, engine,
                   collector, handlers>>

NextCollector ==
    \/ RecordRequest
    \/ Tick

SpecCollector == InitCollector /\ [][NextCollector]_vars

(***************************************************************************)
(* The metrics collector with its periodic retention sweep.  handlers is   *)
(* the list of the record_request calls made so far.                       *)
(***************************************************************************)
\* the clock when the collector is created: half an hour past a full hour
RetentionStart == 361800

\* the clock moves on by half an hour, an hour or the retention period
ClockSteps == {1800, SecondsPerHour, RetentionHours * SecondsPerHour}

\* the record_request calls of the retention runs
RetentionInputs ==
    {<<"groq", "llama", TRUE, 1500, 5, 10, 20, "low", "">>,
     <<"openai", "gpt", TRUE, 2500, 20, 10, 20, "high", "">>,
     <<"groq", "llama", FALSE, 30000, 0, 10, 0, "medium", "TimeoutError">>,
     <<"unknown", "unknown", FALSE, 100, 0, 0, 0, "unknown", "HTTPException">>}

InitRetention ==
    /\ providers = <<>>
    /\ csv_rows = <<>>
    /\ performance_metrics = InitialMetrics(providers)
    /\ engine = TaskReasoningEngine
    /\ collector = MetricsCollector
    /\ clock = RetentionStart
    /\ handlers = <<>>
    /\ request = [op |-> "none"]
    /\ last = [op |-> "init"]
    /\ ops = 0

\* a background task metrics_collector.record_request(...): it runs on the event
\* loop from its first line to its last (its awaits are of coroutines that do
\* not suspend), so no sweep runs inside it
RetentionRecordRequest ==
    \E input \in RetentionInputs :
      \E result \in {record_request(collector, clock, input[1], input[2], input[3],
                                     input[4], input[5], input[6], input[7], input[8],
                                     input[9])} :
        /\ Len(handlers) < MaxRecords
        /\ collector' = result.collector
        /\ handlers' = Append(handlers, [timestamp |-> clock, input |-> input,
                                         raised |-> result.raised])
        /\ last' = [op |-> "record_request", input |-> input, raised |-> result.raised,
                    before |-> collector]
        /\ UNCHANGED <<providers, csv_rows, performance_metrics, request, ops, engine,
                       clock>>

\* time passes
AdvanceClock ==
    \E step \in ClockSteps :
        /\ ops < MaxTicks
        /\ clock' = clock + step
        /\ ops' = ops + 1
        /\ last' = [op |-> "advance", step |-> step]
        /\ UNCHANGED <<providers, csv_rows, performance_metrics, request, engine,
                       collector, handlers>>

\* _periodic_cleanup wakes up and awaits _cleanup_old_metrics(); the sleep may
\* end late, so the sweep runs at any time
CleanupOldMetrics ==
    /\ collector' = cleanup_old_metrics(collector, clock)
    /\ last' = [op |-> "cleanup_old_metrics", before |-> collector]
    /\ UNCHANGED <<providers, csv_rows, performance_metrics, request, ops, engine,
                   clock, handlers>>

\* GET /analytics/system
GetSystemMetrics ==
    /\ last' = [op |-> "get_system_metrics", result |-> get_system_metrics(collector, clock)]
    /\ UNCHANGED <<providers, csv_rows, performance_metrics, request, ops, engine,
                   collector, clock, handlers>>

\* get_provider_metrics(provider_name)
GetProviderMetrics ==
    \E provider_name \in {"groq", "openai", "unknown", "ghost"} :
        /\ last' = [op |-> "get_provider_metrics",
                    result |-> get_provider_metrics(collector, provider_name)]
        /\ UNCHANGED <<providers, csv_rows, performance_metrics, request, ops, engine,
                       collector, clock, handlers>>

NextRetention ==
    \/ RetentionRecordRequest
    \/ AdvanceClock
    \/ CleanupOldMetrics
    \/ GetSystemMetrics
    \/ GetProviderMetrics

SpecRetention == InitRetention /\ [][NextRetention]_vars

(***************************************************************************)
(* The request handler chat_completions (api/fastapi_app.py) and the       *)
(* background tasks it schedules.  handlers is the list of the requests    *)
(* handled so far.                                                         *)
(***************************************************************************)
\* the fields that the request model ChatCompletionRequest declares
ChatCompletionRequestFields ==
    {"messages", "model", "max_tokens", "temperature", "stream", "context"}

\* request.<name> on the parsed request raises AttributeError unless the model
\* declares the field: a key of the body that is not declared is dropped
request_has(name) == name \in ChatCompletionRequestFields

\* the axes of an analysed score, 1/MILLION, in the unit of the selection, 1/100
selection_score(score) == [axis \in DOMAIN score |-> score[axis] \div 10000]

\* time.time() - start_time of the handler, in 1/1000 s
HandlerResponseTime == 100

\* the arguments of the record_request call of the except branch
failed_request(error_type) ==
    <<"unknown", "unknown", FALSE, HandlerResponseTime, 0, 0, 0, "unknown", error_type>>

\* total_cost / (input_tokens + output_tokens), 1/100000 per token, in 1/1000
cost_per_token(final_cost) ==
    IF final_cost.input_tokens + final_cost.output_tokens > 0
    THEN final_cost.total_cost \div (100 * (final_cost.input_tokens + final_cost.output_tokens))
    ELSE 0

\* chat_completions from its first line to its return or raise: the status of
\* the response, the record_request call it scheduled, the tracker and the
\* engine it leaves.  final_cost is the result of token_counter.calculate_cost.
chat_completions(dict, pm, e, body, final_cost) ==
    LET analysis == analyze_complexity(e, body.content, body.context)
        failed(error_type, tracker) ==
            [status |-> 500, error |-> error_type, task |-> failed_request(error_type),
             pm |-> tracker, engine |-> analysis.engine, provider |-> ""]
    IN IF ~request_has("constraints") THEN failed("AttributeError", pm)
       ELSE LET selected == select_provider(dict, pm, selection_score(analysis.score),
                                            body.context, body.constraints)
            IN IF selected.outcome = "raise" THEN failed("TypeError", selected.pm)
               ELSE IF selected.outcome = "none" THEN failed("HTTPException", selected.pm)
               ELSE [status |-> 200, error |-> "",
                     task |-> <<selected.provider.name, final_cost.model, TRUE,
                                HandlerResponseTime, final_cost.total_cost,
                                final_cost.input_tokens, final_cost.output_tokens,
                                complexity_level(analysis.score), "">>,
                     pm |-> update_provider_metrics(selected.pm, selected.provider.name,
                                                    HandlerResponseTime, TRUE,
                                                    cost_per_token(final_cost)),
                     engine |-> analysis.engine, provider |-> selected.provider.name]

\* the bodies of the requests: content, context and the constraints key that
\* clients send
RequestBodies ==
    {[content |-> content, context |-> context, constraints |-> constraints] :
        content \in {<<"Explain", "why">>, <<"solve", "1", "+", "2", "complex">>},
        context \in {NoAnalysisContext, AnalysisContext(Str("high"), Absent)},
        constraints \in {NoConstraints,
                         Constraints(Num(100), Absent, Absent, Absent, Absent)}}

\* results of token_counter.calculate_cost
FinalCosts == {[model |-> "gpt-3.5-turbo", total_cost |-> 5, input_tokens |-> 10,
                output_tokens |-> 20]}

\* the provider files of the handler's registry: none, one whose only provider
\* has no key, and two with providers that pass the filter
HandlerRows == {<<>>, <<Row("azure")>>, <<Row("groq"), Row("openai")>>, <<Row("Local")>>}

InitHandler ==
    /\ \E rows \in HandlerRows :
          /\ csv_rows = rows
          /\ providers = load_providers(rows, <<>>)
    /\ performance_metrics = InitialMetrics(providers)
    /\ engine = TaskReasoningEngine
    /\ collector = MetricsCollector
    /\ clock = StartTime
    /\ handlers = <<>>
    /\ \E body \in RequestBodies : request = body
    /\ last = [op |-> "init"]
    /\ ops = 0

\* POST /v1/chat/completions
ChatCompletions ==
    \E final_cost \in FinalCosts :
      \E result \in {chat_completions(providers, performance_metrics, engine, request,
                                       final_cost)} :
        /\ Len(handlers) < MaxCalls
        /\ handlers' = Append(handlers, [status |-> result.status, error |-> result.error,
                                         provider |-> result.provider,
                                         task |-> result.task, fate |-> "scheduled"])
        /\ performance_metrics' = result.pm
        /\ engine' = result.engine
        /\ last' = [op |-> "chat_completions", status |-> result.status,
                    error |-> result.error]
        /\ UNCHANGED <<providers, csv_rows, request, ops, collector, clock>>

\* the background task of a request runs after its response
RunBackgroundTask ==
    \E i \in DOMAIN handlers :
      \E result \in {record_request(collector, clock, handlers[i].task[1],
                                     handlers[i].task[2], handlers[i].task[3],
                                     handlers[i].task[4], handlers[i].task[5],
                                     handlers[i].task[6], handlers[i].task[7],
                                     handlers[i].task[8], handlers[i].task[9])} :
        /\ handlers[i].fate = "scheduled"
        /\ collector' = result.collector
        /\ handlers' = [handlers EXCEPT ![i].fate =
                            IF result.raised THEN "faulted" ELSE "done"]
        /\ last' = [op |-> "record_request", call |-> i, raised |-> result.raised]
        /\ UNCHANGED <<providers, csv_rows, performance_metrics, request, ops, engine,
                       clock>>

\* the response of a raised HTTPException is built by the exception handler of
\* the framework, and the tasks of the request may not be attached to it
DropBackgroundTask ==
    \E i \in DOMAIN handlers :
        /\ handlers[i].fate = "scheduled"
        /\ handlers[i].status # 200
        /\ handlers' = [handlers EXCEPT ![i].fate = "dropped"]
        /\ last' = [op |-> "drop_task", call |-> i]
        /\ UNCHANGED <<providers, csv_rows, performance_metrics, request, ops, engine,
                       collector, clock>>

NextHandler ==
    \/ ChatCompletions
    \/ RunBackgroundTask
    \/ DropBackgroundTask

SpecHandler == InitHandler /\ [][NextHandler]_vars

(***************************************************************************)
(* Claims about select_provider.                                           *)
(***************************************************************************)
Selected == last.op = "select" /\ last.outcome = "provider"

ScoreOf(provider) ==
    calculate_provider_score(performance_metrics, provider, request.complexity_score,
                             request.context, request.constraints)

Passing == {i \in DOMAIN providers :
              provider_check(providers[i].cfg, request.constraints) = "keep"}

\* C1: select_provider never returns a provider whose health_score is below 0.1,
\* nor one whose api_key is empty unless its tier is UNOFFICIAL, however high
\* that provider would score.
C1_SelectedIsHealthyAndKeyed ==
    Selected =>
        /\ last.provider.health_score >= 10
        /\ (last.provider.api_key = "" => last.provider.tier = "unofficial")

\* a provider below the health floor would have outscored the one returned
C1_Witness ==
    /\ Selected
    /\ \E i \in DOMAIN providers :
          /\ providers[i].cfg.health_score < 10
          /\ providers[i].cfg.api_key # ""
          /\ ScoreOf(providers[i].cfg) > last.score

\* C2: select_provider never raises, returns NONE exactly when no registered
\* provider passes the filter, and otherwise returns a provider that passed.
C2_NoneExactlyWhenNothingPasses ==
    last.op = "select" =>
        /\ last.outcome # "raise"
        /\ (last.outcome = "none" <=> Passing = {})
        /\ (Passing # {} =>
               /\ last.outcome = "provider"
               /\ \E i \in Passing : providers[i].cfg = last.provider)

\* C3: when the filtered set is non-empty, the returned provider's total score
\* is greater than or equal to the total score of every provider of the
\* filtered set.
C3_SelectedHasTopScore ==
    Selected =>
        /\ last.score = ScoreOf(last.provider)
        /\ \A i \in Passing : last.score >= ScoreOf(providers[i].cfg)

\* the provider returned is not the first of the filtered list and beats it
C3_Witness ==
    /\ Selected
    /\ Len(last.available) >= 2
    /\ last.available[1].cfg # last.provider
    /\ ScoreOf(last.available[1].cfg) < last.score

\* C4: every constraint the map contains is a hard filter on the returned
\* provider: cost ceiling, timeout ceiling, allowed tiers, required model.
C4_ConstraintsAreHardFilters ==
    (Selected /\ ~request.constraints.isNone) =>
        LET c == request.constraints
            p == last.provider
        IN /\ (c.max_cost_per_1k.tag = "num" =>
                  p.cost_per_1k_tokens <= c.max_cost_per_1k.n)
           /\ (c.max_timeout.tag = "num" => p.timeout <= c.max_timeout.n)
           /\ ((c.allowed_tiers.tag = "list"
                /\ Range(c.allowed_tiers.l) \subseteq TierNames) =>
                  p.tier \in Range(c.allowed_tiers.l))
           /\ ((c.required_model.tag = "str" /\ c.required_model.s # "") =>
                  c.required_model.s \in Range(p.models))

\* a constraint value the field cannot hold
IsMalformed(key, v) ==
    \/ key \in {"max_cost_per_1k", "max_timeout"}
       /\ v.tag \notin {"absent", "num"}
    \/ key = "allowed_tiers"
       /\ v.tag # "absent"
       /\ ~(v.tag = "list" /\ Range(v.l) \subseteq TierNames)
    \/ key = "required_model" /\ v.tag \notin {"absent", "str"}

HasMalformed(c) == ~c.isNone /\ \E k \in ConstraintKeys : IsMalformed(k, c[k])

WithoutMalformed(c) ==
    [k \in DOMAIN c |->
        IF k \in ConstraintKeys /\ IsMalformed(k, c[k]) THEN Absent ELSE c[k]]

\* C5: with a malformed constraint field select_provider does not raise and
\* returns what it returns when that field is absent.
C5_MalformedFieldIgnored ==
    (last.op = "select" /\ HasMalformed(request.constraints)) =>
        \E r \in {select_provider(providers, performance_metrics,
                                  request.complexity_score, request.context,
                                  WithoutMalformed(request.constraints))} :
            /\ last.outcome # "raise"
            /\ last.outcome = r.outcome
            /\ last.provider = r.provider

\* C6: a select_provider call leaves every provider record of the registry and
\* every performance record of the tracker (and the set of tracked names) as
\* they were.
C6_SelectionHasNoEffect ==
    [][SelectProvider => UNCHANGED <<providers, performance_metrics>>]_vars

\* a provider was scored whose name the tracker does not hold
C6_Witness ==
    /\ Selected
    /\ \E i \in DOMAIN last.available :
          last.available[i].cfg.name \notin DOMAIN performance_metrics

\* C7: the provider returned is the first, in the registry's iteration order,
\* of the eligible providers that share the highest total score; so the result
\* is a function of the inputs and the registry and tracker state.
C7_FirstOfTopScoreWins ==
    Selected =>
        /\ last.available = SelectSeq(providers, LAMBDA e : IsKept(e, request.constraints))
        /\ LET ps == last.provider_scores
               top == {i \in DOMAIN ps : \A j \in DOMAIN ps : ps[i].score >= ps[j].score}
           IN \E i \in top :
                 /\ \A j \in top : i <= j
                 /\ last.provider = ps[i].provider

\* two eligible providers tie for the highest score
C7_Witness ==
    /\ Selected
    /\ \E i, j \in DOMAIN last.provider_scores :
          /\ i < j
          /\ last.provider_scores[i].score = last.score
          /\ last.provider_scores[j].score = last.score
          /\ last.provider_scores[i].provider = last.provider
          /\ last.provider_scores[j].provider # last.provider

RequestPriority ==
    IF request.context.isNone THEN "" ELSE request.context.priority.s

\* C8: the total score is the sum of the four axis scores under the weights
\* 0.35 / 0.25 / 0.25 / 0.15, with cost 0.40 and capability 0.25 for priority
\* "cost", performance 0.40 and cost 0.15 for "performance", capability 0.50
\* and cost 0.15 for "quality".
C8_WeightsByPriority ==
    Selected =>
        LET w == CASE RequestPriority = "cost" ->
                        [capability |-> 25, performance |-> 25, cost |-> 40,
                         reliability |-> 15]
                   [] RequestPriority = "performance" ->
                        [capability |-> 35, performance |-> 40, cost |-> 15,
                         reliability |-> 15]
                   [] RequestPriority = "quality" ->
                        [capability |-> 50, performance |-> 25, cost |-> 15,
                         reliability |-> 15]
                   [] OTHER ->
                        [capability |-> 35, performance |-> 25, cost |-> 25,
                         reliability |-> 15]
            p == last.provider
        IN last.score =
             calculate_capability_score(p, request.complexity_score) * w.capability
             + calculate_performance_score(performance_metrics, p) * w.performance
             + calculate_cost_score(p, request.constraints) * w.cost
             + calculate_reliability_score(p) * w.reliability

\* a provider was returned under priority "performance" and a non-zero cost score
C8_Witness ==
    /\ Selected
    /\ RequestPriority = "performance"
    /\ calculate_cost_score(last.provider, request.constraints) > 0

\* the registry holds the cheap community provider and the expensive official
\* one, both healthy, the tracker is fresh, the task is hard
FlipScenario ==
    /\ Keys(providers) = {"groq", "openai"}
    /\ \A i \in DOMAIN providers : providers[i].cfg.health_score = 100
    /\ \A n \in DOMAIN performance_metrics : performance_metrics[n] = ProviderPerformance
    /\ request.complexity_score = HighComplexity
    /\ request.constraints = NoConstraints

\* C9: with a hard task, a cheap community provider and an expensive official
\* provider with equal tracker statistics, select_provider returns the official
\* one without context and the cheap one under priority "cost".
C9_RankingFlipsUnderCostPriority ==
    (Selected /\ FlipScenario) =>
        /\ (request.context = NoContext => last.provider.name = "openai")
        /\ (RequestPriority = "cost" => last.provider.name = "groq")

\* the cheap provider was returned under priority "cost" where the same call
\* without context returns the expensive one
C9_Witness ==
    /\ Selected
    /\ FlipScenario
    /\ RequestPriority = "cost"
    /\ last.provider.name = "groq"
    /\ last.provider.cost_per_1k_tokens < 200
    /\ select_provider(providers, performance_metrics, request.complexity_score,
                       NoContext, request.constraints).provider.name = "openai"

(***************************************************************************)
(* Claims about the scoring functions.                                     *)
(***************************************************************************)
BudgetWeight ==
    IF DictTruthy(request.constraints, ConstraintKeys)
    THEN request.constraints.budget_weight
    ELSE Absent

\* C10 as stated: of two providers identical except for cost c1 < c2, the
\* dearer one has a strictly lower cost-axis score and no higher total score.
C10_CostStrictlyLowersCostScore ==
    (last.op = "score_pair" /\ BudgetWeight.tag = "absent") =>
        /\ last.cost_scores[2] < last.cost_scores[1]
        /\ last.totals[2] <= last.totals[1]

\* C10: of two providers identical except for cost c1 < c2, with budget_weight
\* absent or not negative, the dearer one has no higher cost-axis score, a
\* strictly lower one when c1 < 0.01 and the same one (0) when c1 >= 0.01, and
\* no higher total score.
C10_CostNeverRaisesScore ==
    (last.op = "score_pair" /\ BudgetWeight.n >= 0) =>
        /\ last.cost_scores[2] <= last.cost_scores[1]
        /\ (request.costs[1] < 1000 => last.cost_scores[2] < last.cost_scores[1])
        /\ (request.costs[1] >= 1000 => last.cost_scores[2] = last.cost_scores[1])
        /\ last.totals[2] <= last.totals[1]

\* both costs are at or above 0.01 and both cost scores are floored at 0
C10_Witness ==
    /\ last.op = "score_pair"
    /\ request.costs[1] >= 1000
    /\ request.costs[1] < request.costs[2]
    /\ last.cost_scores = <<0, 0>>
    /\ last.totals[1] = last.totals[2]

(***************************************************************************)
(* Claims about the complexity analyzer.                                   *)
(***************************************************************************)
Analysed == last.op = "analyze_complexity"

Axes == {"reasoning", "knowledge", "computation", "coordination"}

\* C11: for every content and every context, each of the four axes of the
\* ComplexityScore returned by analyze_complexity lies in [0,1] after the
\* context, length and pattern modifiers, and total_score is the unweighted
\* mean of the four axes (four times the total is their sum).
C11_AxesInUnitIntervalAndTotalIsMean ==
    Analysed =>
        /\ \A axis \in Axes : last.score[axis] >= 0 /\ last.score[axis] <= MILLION
        /\ last.total_score = last.score.reasoning + last.score.knowledge
                              + last.score.computation + last.score.coordination

\* an axis whose base score is below 1.0 is raised above 1.0 by a context hint,
\* the length and the patterns of the content, and is returned as 1.0
C11_Witness ==
    /\ Analysed
    /\ Truthy(request.context.complexity_hint)
    /\ Len(request.content) >= 200
    /\ \E axis \in Axes : last.base[axis] < 100 /\ last.score[axis] = MILLION

\* C12: complexity_level is "low" exactly when total_score < 0.4, "medium"
\* exactly when 0.4 <= total_score < 0.7 and "high" exactly when
\* total_score >= 0.7; totals 0.39, 0.40, 0.69, 0.70 classify as low, medium,
\* medium, high.  (last.total_score is four times the total, in 1/MILLION.)
C12_LevelBoundaries ==
    last.op = "complexity_level" =>
        /\ last.complexity_level = "low" <=> last.total_score < 1600000
        /\ last.complexity_level = "medium" <=>
               (1600000 <= last.total_score /\ last.total_score < 2800000)
        /\ last.complexity_level = "high" <=> last.total_score >= 2800000
        /\ last.total_score = 1560000 => last.complexity_level = "low"
        /\ last.total_score = 1600000 => last.complexity_level = "medium"
        /\ last.total_score = 2760000 => last.complexity_level = "medium"
        /\ last.total_score = 2800000 => last.complexity_level = "high"

\* a score whose total is exactly 0.40, with axes that differ, is classified
C12_Witness ==
    /\ last.op = "complexity_level"
    /\ last.total_score = 1600000
    /\ request.complexity_score.reasoning # request.complexity_score.knowledge
    /\ last.complexity_level = "medium"

\* C13: analyze_complexity is deterministic and has no effect: two calls with
\* the same content and the same context return equal ComplexityScores,
\* whatever calls ran before or between them, and no call changes the keyword
\* lists and patterns of the engine.
C13_AnalysisIsPure ==
    /\ engine = TaskReasoningEngine
    /\ \A i, j \in DOMAIN handlers :
           (handlers[i].content = handlers[j].content
            /\ handlers[i].context = handlers[j].context)
           => handlers[i].score = handlers[j].score

\* the same request analysed twice with a different request in between
C13_Witness ==
    /\ Len(handlers) = 3
    /\ handlers[1].content = handlers[3].content
    /\ handlers[1].context = handlers[3].context
    /\ handlers[2].content # handlers[1].content
    /\ handlers[1].content # <<>>
    /\ handlers[1].score.knowledge > 0

(***************************************************************************)
(* Claims about the performance tracker.                                   *)
(***************************************************************************)
\* the calls of update_provider_metrics that are made in this step
Completing ==
    {i \in DOMAIN handlers' :
        /\ handlers'[i].pc = "done"
        /\ (i \in DOMAIN handlers => handlers[i].pc # "done")}

\* the record an update starts from
RecordBefore(name) ==
    IF name \in DOMAIN performance_metrics THEN performance_metrics[name]
    ELSE [success_rate |-> 1000, avg_response_time |-> 1000,
          avg_cost_efficiency |-> 1000, request_count |-> 0]

IsAverageOf(new, old, sample) == 10 * new = 9 * old + sample

\* C14: each update_provider_metrics(name, rt, success, ce) replaces
\* avg_response_time by 0.9*old + 0.1*rt, avg_cost_efficiency by
\* 0.9*old + 0.1*ce, success_rate by 0.9*old + 0.1*(1 if success else 0) and
\* adds exactly 1 to request_count; one update with success=True and rt=2.0 on
\* a fresh record leaves success_rate at 1.0 and moves avg_response_time from
\* 1.0 to 1.1.
C14_UpdateIsMovingAverage ==
    [][\A i \in Completing :
           LET call == handlers'[i]
               old == RecordBefore(call.provider_name)
               new == performance_metrics'[call.provider_name]
           IN /\ IsAverageOf(new.avg_response_time, old.avg_response_time,
                              call.response_time)
              /\ IsAverageOf(new.avg_cost_efficiency, old.avg_cost_efficiency,
                              call.cost_efficiency)
              /\ IsAverageOf(new.success_rate, old.success_rate,
                              IF call.success THEN 1000 ELSE 0)
              /\ new.request_count = old.request_count + 1
              /\ (old.request_count = 0 /\ call.success /\ call.response_time = 2000)
                 => (new.success_rate = 1000 /\ new.avg_response_time = 1100)]_vars

\* a fresh record after one update with success=True and rt=2.0, and a record
\* after a second update that failed
C14_Witness ==
    /\ Len(handlers) = 2
    /\ handlers[1].pc = "done" /\ handlers[2].pc = "done"
    /\ handlers[1].provider_name = "groq" /\ handlers[2].provider_name = "groq"
    /\ handlers[1].response_time = 2000 /\ handlers[1].success
    /\ ~handlers[2].success
    /\ performance_metrics["groq"].request_count = 2
    /\ performance_metrics["groq"].success_rate = 900

\* C15: update_provider_metrics on a name that has no performance record
\* creates a record with success_rate, avg_response_time and
\* avg_cost_efficiency at 1.0 and request_count 0 and applies the update to it
\* (it does not raise), and no operation removes the record of a name.
C15_RecordsAreCreatedAndKept ==
    [][/\ \A name \in DOMAIN performance_metrics : name \in DOMAIN performance_metrics'
       /\ \A i \in Completing :
             LET call == handlers'[i]
             IN /\ call.provider_name \in DOMAIN performance_metrics'
                /\ call.provider_name \notin DOMAIN performance_metrics
                   => performance_metrics'[call.provider_name] =
                         [success_rate |-> IF call.success THEN 1000 ELSE 900,
                          avg_response_time |-> (9000 + call.response_time) \div 10,
                          avg_cost_efficiency |-> (9000 + call.cost_efficiency) \div 10,
                          request_count |-> 1]]_vars

\* a name that is not in the registry has a record after its first update,
\* and still has it after a later update of another provider
C15_Witness ==
    /\ Len(handlers) = 2
    /\ handlers[1].provider_name = "ghost"
    /\ handlers[2].provider_name # "ghost" /\ handlers[2].pc = "done"
    /\ "ghost" \notin Keys(providers)
    /\ "ghost" \in DOMAIN performance_metrics
    /\ performance_metrics["ghost"].request_count = 1

\* the updates of one name that are done
DoneFor(name) ==
    {i \in DOMAIN handlers : handlers[i].pc = "done" /\ handlers[i].provider_name = name}

Orders(S) ==
    {f \in [1..Cardinality(S) -> S] : \A a, b \in DOMAIN f : f[a] = f[b] => a = b}

\* 0.9*old + 0.1*sample on a record, one call after another in the order f
RECURSIVE InOrder(_, _, _)
InOrder(f, k, record) ==
    IF k > Len(f) THEN record
    ELSE LET call == handlers[f[k]]
         IN InOrder(f, k + 1,
                    [success_rate |->
                        (9 * record.success_rate + (IF call.success THEN 1000 ELSE 0))
                        \div 10,
                     avg_response_time |->
                        (9 * record.avg_response_time + call.response_time) \div 10,
                     avg_cost_efficiency |->
                        (9 * record.avg_cost_efficiency + call.cost_efficiency) \div 10,
                     request_count |-> record.request_count + 1])

\* C16: no performance update is lost when requests overlap: for every
\* interleaving of the update_provider_metrics calls of requests in flight,
\* the request_count of a provider has grown by the number of its calls and
\* its statistics are those of the calls applied one after another in some
\* order; calls for other providers leave its record as it is.
C16_NoUpdateIsLost ==
    \A name \in DOMAIN performance_metrics :
        /\ performance_metrics[name].request_count = Cardinality(DoneFor(name))
        /\ \E f \in Orders(DoneFor(name)) :
               performance_metrics[name] =
                   InOrder(f, 1, [success_rate |-> 1000, avg_response_time |-> 1000,
                                  avg_cost_efficiency |-> 1000, request_count |-> 0])

\* two requests for the same provider were in flight together and both have
\* made their update, with different response times
C16_Witness ==
    /\ Len(handlers) = 2
    /\ handlers[1].pc = "done" /\ handlers[2].pc = "done"
    /\ handlers[2].overlaps
    /\ handlers[1].provider_name = handlers[2].provider_name
    /\ handlers[1].response_time # handlers[2].response_time
    /\ performance_metrics[handlers[1].provider_name].request_count = 2

\* a provider that no update_provider_metrics call has named, by its configured
\* name or by its registry key
Unseen(i) ==
    \A name \in {providers[i].cfg.name, providers[i].key} :
        name \in DOMAIN performance_metrics
        => performance_metrics[name].request_count = 0

\* C17: for every registered provider that has not yet received a performance
\* update, whatever the letter case of its configured name, the performance
\* axis used by select_provider is computed from the neutral defaults
\* (success_rate 1.0, avg_response_time 1.0, avg_cost_efficiency 1.0), i.e. it
\* is 0.4*(1 - 1.0/10) + 0.4*1.0 + 0.2*1.0 = 0.96.
C17_UnseenProviderScoresNeutral ==
    \A i \in DOMAIN providers :
        Unseen(i) =>
            calculate_performance_score(performance_metrics, providers[i].cfg)
                = (ONE \div 100) * 96

(***************************************************************************)
(* Claims about the provider registry.                                     *)
(***************************************************************************)
\* C18: after any sequence of load, reload and health updates the registry
\* holds at most one provider record per case-insensitive name, and
\* get_provider(n) returns the same record for every letter-casing of n, a
\* record of that name, and nothing when no record has that name.
C18_NamesAreCaseInsensitiveKeys ==
    /\ \A i, j \in DOMAIN providers :
           Lower(providers[i].cfg.name) = Lower(providers[j].cfg.name) => i = j
    /\ \A name \in LookupNames :
           LET found == get_provider(providers, name)
           IN /\ \A spelling \in Casings(name) : get_provider(providers, spelling) = found
              /\ found # 0 => Lower(providers[found].cfg.name) = Lower(name)
              /\ found = 0 =>
                     \A i \in DOMAIN providers : Lower(providers[i].cfg.name) # Lower(name)

\* a file with the rows "Local" and "local" gives one record, the second row,
\* and a lookup of "LOCAL" finds it
C18_Witness ==
    /\ Len(csv_rows) = 2
    /\ csv_rows[1].name = "Local" /\ csv_rows[2].name = "local"
    /\ Len(providers) = 1
    /\ providers[1].cfg = csv_rows[2]
    /\ last.op = "get_provider" /\ last.name = "LOCAL" /\ last.found = 1

\* C19: once loaded, provider records are changed only by
\* update_provider_health: update_provider_health(name, s) sets the named
\* provider's health_score to s clamped into [0,1] and changes no other field
\* and no other provider (nothing when the name is unknown), no other registry
\* operation changes any field of any record, and every health_score stays in
\* [0,1].
C19_OnlyHealthUpdatesChangeRecords ==
    [][/\ \A i \in DOMAIN providers' :
             providers'[i].cfg.health_score >= 0 /\ providers'[i].cfg.health_score <= 100
       /\ IF SetProviderHealth
          THEN LET found == get_provider(providers, last'.name)
               IN IF found = 0 THEN providers' = providers
                  ELSE providers' =
                          [providers EXCEPT ![found].cfg.health_score =
                              IF last'.health_score < 0 THEN 0
                              ELSE IF last'.health_score > 100 THEN 100
                              ELSE last'.health_score]
          ELSE providers' = providers]_vars

(***************************************************************************)
(* Claims about the metrics collector.                                     *)
(***************************************************************************)
\* the count a dict holds for a key, 0 when it holds none
Count(d, key) == IF key \in DOMAIN d THEN d[key] ELSE 0

AggregateOf(c, provider) ==
    IF provider \in DOMAIN c.provider_metrics THEN c.provider_metrics[provider]
    ELSE [name |-> provider, total_requests |-> 0, successful_requests |-> 0,
          failed_requests |-> 0, total_response_time |-> 0, total_cost |-> 0,
          total_tokens |-> 0, last_request_time |-> 0 - 1,
          error_counts |-> [e \in {} |-> 0]]

BucketRequests(c, hour) ==
    IF hour \in DOMAIN c.hourly_stats THEN c.hourly_stats[hour].requests ELSE 0

\* C20: each record_request call appends exactly one RequestMetric to the log,
\* adds 1 to that provider's total_requests and to exactly one of its
\* successful_requests / failed_requests, adds the cost and the response time
\* to its cumulative sums, adds 1 to the error-type histogram entry only when
\* the request failed with an error kind, adds 1 to the requests of the bucket
\* of the current hour, and adds 1 to the counter of the given complexity
\* level.
C20_RecordUpdatesEveryAggregate ==
    [][RecordRequest =>
          LET provider == last'.input[1]
              success == last'.input[3]
              response_time == last'.input[4]
              cost == last'.input[5]
              level == last'.input[8]
              error_type == last'.input[9]
              old == AggregateOf(collector, provider)
              new == AggregateOf(collector', provider)
          IN /\ Len(collector'.request_metrics) = Len(collector.request_metrics) + 1
             /\ SubSeq(collector'.request_metrics, 1, Len(collector.request_metrics))
                    = collector.request_metrics
             /\ LET metric == collector'.request_metrics[Len(collector'.request_metrics)]
                IN /\ metric.provider = provider /\ metric.success = success
                   /\ metric.cost = cost /\ metric.response_time = response_time
                   /\ metric.complexity_level = level /\ metric.timestamp = clock
             /\ new.total_requests = old.total_requests + 1
             /\ new.successful_requests
                    = old.successful_requests + (IF success THEN 1 ELSE 0)
             /\ new.failed_requests = old.failed_requests + (IF success THEN 0 ELSE 1)
             /\ new.total_cost = old.total_cost + cost
             /\ new.total_response_time = old.total_response_time + response_time
             /\ IF ~success /\ error_type # ""
                THEN /\ Count(new.error_counts, error_type)
                           = Count(old.error_counts, error_type) + 1
                     /\ \A e \in DOMAIN new.error_counts \ {error_type} :
                           Count(new.error_counts, e) = Count(old.error_counts, e)
                ELSE new.error_counts = old.error_counts
             /\ BucketRequests(collector', clock \div 3600)
                    = BucketRequests(collector, clock \div 3600) + 1
             /\ Count(collector'.complexity_stats, level)
                    = Count(collector.complexity_stats, level) + 1]_vars

(***************************************************************************)
(* Claims about the retention sweep and the views of the collector.        *)
(***************************************************************************)
Swept == last.op = "cleanup_old_metrics"

\* the record_request calls whose metric is later than the clock minus the window
InWindow == {i \in DOMAIN handlers :
                handlers[i].timestamp > clock - RetentionHours * SecondsPerHour}

RECURSIVE CostOfCalls(_)
CostOfCalls(S) ==
    IF S = {} THEN 0
    ELSE LET i == CHOOSE j \in S : TRUE
         IN handlers[i].input[5] + CostOfCalls(S \ {i})

\* C21: after a retention sweep run at time T with the default window of 24
\* hours, the totals of get_system_metrics count exactly the recorded metrics
\* whose timestamp is later than T - W: none that is older, every one inside.
C21_SweepKeepsExactlyTheWindow ==
    Swept =>
        LET totals == get_system_metrics(collector, clock)
        IN /\ totals.total_requests = Cardinality(InWindow)
           /\ totals.successful_requests =
                  Cardinality({i \in InWindow : handlers[i].input[3]})
           /\ totals.failed_requests =
                  Cardinality({i \in InWindow : ~handlers[i].input[3]})
           /\ totals.total_cost = CostOfCalls(InWindow)
           /\ \A k \in DOMAIN collector.request_metrics :
                 collector.request_metrics[k].timestamp
                     > clock - RetentionHours * SecondsPerHour

\* a metric recorded 25 hours before the sweep is gone, one recorded 1 hour
\* before it is counted
C21_Witness ==
    /\ Swept
    /\ Len(handlers) = 2
    /\ handlers[1].timestamp = clock - 25 * SecondsPerHour
    /\ handlers[2].timestamp = clock - SecondsPerHour
    /\ Len(last.before.request_metrics) = 2
    /\ get_system_metrics(collector, clock).total_requests = 1

\* the collector that the record_request calls made so far leave when no sweep
\* has ever run
RECURSIVE NeverSwept(_)
NeverSwept(calls) ==
    IF calls = <<>> THEN MetricsCollector
    ELSE LET call == calls[Len(calls)]
             input == call.input
         IN record_request(NeverSwept(SubSeq(calls, 1, Len(calls) - 1)), call.timestamp,
                           input[1], input[2], input[3], input[4], input[5], input[6],
                           input[7], input[8], input[9]).collector

LogAndBuckets(c) == <<c.request_metrics, c.hourly_stats>>

\* C22: the sweep is idempotent and tolerates being skipped or delayed: a
\* second sweep at the same time changes nothing, and whatever sweeps ran
\* earlier, a sweep now leaves the log and the hourly buckets that it leaves
\* when every earlier sweep was skipped.
C22_SweepIsIdempotentAndSkippable ==
    LET once == cleanup_old_metrics(collector, clock)
    IN /\ LogAndBuckets(cleanup_old_metrics(once, clock)) = LogAndBuckets(once)
       /\ LogAndBuckets(once) = LogAndBuckets(cleanup_old_metrics(NeverSwept(handlers), clock))
       /\ (Swept => collector = cleanup_old_metrics(collector, clock))

\* an earlier sweep removed a metric, a later record and a later sweep
\* followed, and the later sweep removed a metric and an hourly bucket too
C22_Witness ==
    /\ Swept
    /\ Len(handlers) = 2
    /\ handlers[1].timestamp < handlers[2].timestamp
    /\ Len(last.before.request_metrics) = 1
    /\ last.before.request_metrics[1].timestamp = handlers[2].timestamp
    /\ collector.request_metrics = <<>>
    /\ DOMAIN collector.hourly_stats # DOMAIN last.before.hourly_stats
    /\ Len(NeverSwept(handlers).request_metrics) = 2

\* the metric that the i-th record_request call stores
MetricOfCall(i) ==
    LET input == handlers[i].input
    IN RequestMetric(handlers[i].timestamp, input[1], input[2], input[3], input[4],
                     input[5], input[6], input[7], input[8], input[9])

RECURSIVE MetricsOfCalls(_)
MetricsOfCalls(n) ==
    IF n = 0 THEN <<>> ELSE Append(MetricsOfCalls(n - 1), MetricOfCall(n))

LaterThanCutoff(m) == m.timestamp > clock - RetentionHours * SecondsPerHour

\* C23: the sweep does not race with record_request: in every interleaving of
\* record_request calls with sweeps, every metric inside the retention window
\* is in the log exactly once, and the per-provider aggregates, the hourly
\* bucket and the complexity counter reflect each record exactly once.
C23_SweepDoesNotRaceWithRecord ==
    /\ SelectSeq(collector.request_metrics, LaterThanCutoff)
           = SelectSeq(MetricsOfCalls(Len(handlers)), LaterThanCutoff)
    /\ \A i \in DOMAIN handlers :
          LET provider == handlers[i].input[1]
              level == handlers[i].input[8]
              hour == hour_key(handlers[i].timestamp)
          IN /\ get_provider_metrics(collector, provider).total_requests
                    = Cardinality({j \in DOMAIN handlers : handlers[j].input[1] = provider})
             /\ Count(collector.complexity_stats, level)
                    = Cardinality({j \in DOMAIN handlers : handlers[j].input[8] = level})
             /\ LaterThanCutoff(handlers[i]) =>
                    BucketRequests(collector, hour)
                        = Cardinality({j \in DOMAIN handlers :
                                          hour_key(handlers[j].timestamp) = hour})

Recorded == last.op = "record_request"

\* the four effects of the record_request call that has just run
LogGrew == Len(collector.request_metrics) = Len(last.before.request_metrics) + 1

AggregateGrew ==
    get_provider_metrics(collector, last.input[1]).total_requests
        = get_provider_metrics(last.before, last.input[1]).total_requests + 1

CounterGrew ==
    Count(collector.complexity_stats, last.input[8])
        = Count(last.before.complexity_stats, last.input[8]) + 1

BucketGrew ==
    BucketRequests(collector, hour_key(clock))
        = BucketRequests(last.before, hour_key(clock)) + 1

\* C28: record_request is all-or-nothing for every complexity_level it is
\* called with, "unknown" included: either the log entry, the provider
\* aggregates, the complexity counter and the hourly bucket are all updated,
\* or none of them is changed.
C28_RecordIsAllOrNothing ==
    Recorded =>
        \/ LogGrew /\ AggregateGrew /\ CounterGrew /\ BucketGrew
        \/ collector = last.before

RECURSIVE ProviderTotal(_)
ProviderTotal(names) ==
    IF names = {} THEN 0
    ELSE LET n == CHOOSE x \in names : TRUE
         IN get_provider_metrics(collector, n).total_requests + ProviderTotal(names \ {n})

\* C29: in every reachable state, after any sequence of record_request calls
\* and retention sweeps, total_requests of get_system_metrics equals the sum
\* over all providers of total_requests of get_provider_metrics, and equals
\* the sum of the three counts of complexity_distribution.
C29_ViewsAgree ==
    LET system == get_system_metrics(collector, clock)
    IN /\ system.total_requests = ProviderTotal(DOMAIN collector.provider_metrics)
       /\ system.total_requests = system.complexity_distribution["low"]
                                  + system.complexity_distribution["medium"]
                                  + system.complexity_distribution["high"]

(***************************************************************************)
(* Claims about selection among concurrent updates.                        *)
(***************************************************************************)
\* the providers of the registry that pass the filter of the request
Eligible == {providers[i].cfg : i \in Passing}

\* C24: in every interleaving of select_provider calls with
\* update_provider_health and update_provider_metrics calls, the scores that
\* one select call compares are all computed from the registry and the tracker
\* of one state, the state in which the call runs, and the provider returned
\* is the highest-scoring eligible provider of that state.
C24_SelectionReadsOneState ==
    [][(last'.op = "select" /\ last'.outcome = "provider") =>
          /\ {last'.provider_scores[k].provider : k \in DOMAIN last'.provider_scores}
                 = Eligible
          /\ \A k \in DOMAIN last'.provider_scores :
                last'.provider_scores[k].score = ScoreOf(last'.provider_scores[k].provider)
          /\ last'.provider \in Eligible
          /\ last'.score = ScoreOf(last'.provider)
          /\ \A p \in Eligible : ScoreOf(p) <= last'.score]_vars

\* a select call that ran after an update of the tracker compared two
\* providers, and the update decided which of them it returned
C24_Witness ==
    /\ Selected
    /\ ops >= 1
    /\ Len(last.provider_scores) >= 2
    /\ performance_metrics # InitialMetrics(providers)
    /\ select_provider(providers, InitialMetrics(providers), request.complexity_score,
                       request.context, request.constraints).provider # last.provider

\* the health updates made so far that name the provider, whatever the case
HealthUpdatesOf(name) ==
    {i \in DOMAIN handlers : /\ handlers[i].op = "update_provider_health"
                             /\ Lower(handlers[i].name) = Lower(name)}

LastOf(S) == CHOOSE i \in S : \A j \in S : j <= i

\* C27: a health update is seen by every later selection: after
\* update_provider_health(p, s) with s < 0.1 no select_provider call returns p
\* until a later update_provider_health(p, s') with s' >= 0.1, and after such
\* an update p is compared again if it passes the other filters.
C27_HealthUpdateIsSeen ==
    last.op = "select" =>
        /\ Selected /\ HealthUpdatesOf(last.provider.name) # {} =>
              handlers[LastOf(HealthUpdatesOf(last.provider.name))].health_score >= 10
        /\ \A i \in DOMAIN providers :
              LET p == providers[i].cfg
              IN (/\ HealthUpdatesOf(p.name) # {}
                  /\ handlers[LastOf(HealthUpdatesOf(p.name))].health_score >= 10
                  /\ is_available_ignoring_health(p))
                 => \E k \in DOMAIN last.available : last.available[k].cfg.name = p.name

(***************************************************************************)
(* Claims about failures in the tracker.                                   *)
(***************************************************************************)
\* the tracker after the same call with success=True
AfterSuccess(call) ==
    update_provider_metrics(performance_metrics, call.provider_name, call.response_time,
                            TRUE, call.cost_efficiency)

CapitalisedWords(content) == {i \in DOMAIN content : IsCapitalised(content[i])}

\* the pre-modifier knowledge score of the same content written in lower case
KnowledgeInLowerCase ==
    analyze_complexity(engine, lower(request.content), request.context).base.knowledge

\* C25: proper-noun density is a signal of the knowledge axis: for content
\* whose knowledge base score is below its cap, analyze_complexity gives a
\* strictly higher pre-modifier knowledge score to content with more than
\* three capitalised words than to the same content with those words in lower
\* case.
C25_ProperNounsRaiseKnowledge ==
    (/\ Analysed
     /\ Cardinality(CapitalisedWords(request.content)) > 3
     /\ KnowledgeInLowerCase < 100)
    => last.base.knowledge > KnowledgeInLowerCase

(***************************************************************************)
(* Claims about the request handler.                                       *)
(***************************************************************************)
\* no provider of the registry passes the filter, so select_provider has
\* nothing to return
NothingEligible ==
    filter_available_providers(providers, NoConstraints).available = <<>>

\* C26: when select_provider returns NONE the request handler surfaces the
\* "no provider available" outcome, HTTP 503, and not an internal failure,
\* HTTP 500, and the request completes without an unhandled fault in the
\* handler or in the metric recording it schedules.
C26_NoProviderIs503 ==
    NothingEligible =>
        \A i \in DOMAIN handlers :
            /\ handlers[i].status = 503
            /\ handlers[i].fate # "faulted"

====
